---------------------------- MODULE Spec2Model ----------------------------
(***************************************************************************)
(* A state-machine model of the GlobalISel Legalizer pass                  *)
(* (llvm/lib/CodeGen/GlobalISel/Legalizer.cpp): the change observer        *)
(* LegalizerWorkListManager, the two worklists, and the fixpoint loop of   *)
(* Legalizer::runOnMachineFunction.  The legality driver                   *)
(* (LegalizerHelper::legalizeInstrStep) and the artifact combiner          *)
(* (LegalizationArtifactCombiner::tryCombineInstruction) are external:     *)
(* they are modelled as callees that edit the program through the          *)
(* observer, one edit per step, and then return.                           *)
(***************************************************************************)
EXTENDS Integers, Sequences, FiniteSets, TLC

(***************************************************************************)
(* Bounds of the model.                                                    *)
(***************************************************************************)
\* Instruction identities of one run: the initial program and the created ones.
MaxInstr == 2
\* Edits the external callees may make in one run when the budget is finite.
MaxNotify == 1
\* Basic blocks the driver may add in one run.
MaxNewBlocks == 1
\* Sections begun on time profilers in one behaviour.
MaxSections == 2
\* TimeTraceScope objects alive at once.
MaxScopes == 2
\* Calls of TimeTraceProfilerInitialize in one behaviour.
MaxInits == 2
\* Number of distinct keys the callers of a DenseMap use.
MaxKeys == 4
\* A DenseMap is constructed with 2^i buckets, i in 0..MaxLog2Buckets.
MaxLog2Buckets == 2

\* The example program of the design's scenario: %0 = OP_A();
\* %1 = ARTIFACT_EXTEND(%0); %2 = ARTIFACT_TRUNCATE(%1), as instructions 1, 2, 3.
ExampleOpc == <<"G_ADD", "G_ANYEXT", "G_TRUNC">>
ExampleUse == <<0, 1, 2>>

\* Identities: those of the bounded programs, and enough for the example.
MaxId == IF MaxInstr < Len(ExampleOpc) THEN Len(ExampleOpc) ELSE MaxInstr
Ids == 1..MaxId
NoReg == 0
Unlimited == 0 - 1

(***************************************************************************)
(* Opcodes.  GenericOpcodes stands for the pre-isel generic range; the     *)
(* model's programs draw from Opcodes.                                     *)
(***************************************************************************)
ArtifactOpcodes ==
    {"G_TRUNC", "G_ZEXT", "G_ANYEXT", "G_SEXT", "G_MERGE_VALUES",
     "G_UNMERGE_VALUES", "G_CONCAT_VECTORS", "G_BUILD_VECTOR"}

GenericOpcodes == ArtifactOpcodes \cup {"G_ADD", "G_ATOMICRMW_ADD"}

Opcodes == {"G_ADD", "G_ATOMICRMW_ADD", "G_TRUNC", "COPY"}

\* static bool isArtifact(const MachineInstr &MI)
isArtifact(o) == o \in ArtifactOpcodes

\* isPreISelGenericOpcode(MI.getOpcode())
isPreISelGenericOpcode(o) == o \in GenericOpcodes

\* Opcodes with an observable side effect (never trivially dead).
hasSideEffect(o) == o = "G_ATOMICRMW_ADD"

VARIABLES
    life,              \* life[i]: "new" (not created yet), "live", "gone" (erased)
    opc,               \* opc[i]: opcode of instruction i
    use,               \* use[i]: the instruction whose value i reads, or NoReg
    MFsize,            \* MF.size(): number of basic blocks
    FailedISel,        \* MachineFunctionProperties::Property::FailedISel
    InstList,          \* primary worklist
    ArtifactList,      \* artifact worklist
    pc,                \* position in runOnMachineFunction
    MI,                \* the instruction popped last (NoReg outside an iteration)
    Res,               \* result of the last legalizeInstrStep
    Changed,           \* bool Changed
    NumBlocks,         \* const size_t NumBlocks
    observing,         \* whether the observer is attached to the builder
    diag,              \* diagnostics emitted by reportGISelFailure
    ret,               \* value returned by the pass (FALSE until it returns)
    fuel,              \* edits the callees may still make (Unlimited: no budget)
    run,               \* 1 in the first run of the pass, 2 in a second run
    settled,           \* instructions the driver found AlreadyLegal, unchanged since
    orphan,            \* producer whose last use a driver rewrite dropped
    modified,          \* whether this run edited or erased an instruction
    last,              \* the observer call or worklist insert of the last step
    deadAtCall,        \* instructions already unused when the combiner was called
    input,             \* whether the pass was first called on the example program
    unreachable,       \* instructions in blocks no path from the entry block reaches
    hist,              \* what the run did so far (failed combines, dead lists, results)
    \* llvm/Support/TimeProfiler
    TimeTraceProfilerInstance,  \* 0 (nullptr) or the number of the instance
    Stack,             \* TimeTraceProfiler::Stack, the open sections
    Entries,           \* TimeTraceProfiler::Entries, the recorded sections
    TotalPerName,      \* TimeTraceProfiler::TotalPerName
    CountPerName,      \* TimeTraceProfiler::CountPerName
    Scopes,            \* the live TimeTraceScope objects, innermost last
    tpState,           \* "ok", "Aborted" (failed assert) or "Undefined"
    tpOut,             \* what TimeTraceProfilerWrite wrote last
    tpHist,            \* calls made so far and the last call
    \* llvm/ADT/DenseMap
    NumBuckets,        \* DenseMap::NumBuckets (0: no map constructed)
    Buckets,           \* DenseMap::Buckets, indexed from 0
    NumEntries,        \* DenseMap::NumEntries
    NumTombstones,     \* DenseMap::NumTombstones
    dmState,           \* "none", "ok", "Looping" (a call that never returns)
    dmRef,             \* the keys added and not since erased, with their values
    dmLast             \* the last call on the map and what it returned

vars == <<life, opc, use, MFsize, FailedISel, InstList, ArtifactList,
          pc, MI, Res, Changed, NumBlocks, observing, diag,
          ret, fuel, run, settled, orphan, modified, last, deadAtCall,
          input, unreachable, hist,
          TimeTraceProfilerInstance, Stack, Entries, TotalPerName, CountPerName,
          Scopes, tpState, tpOut, tpHist,
          NumBuckets, Buckets, NumEntries, NumTombstones, dmState, dmRef,
          dmLast>>

tpVars == <<TimeTraceProfilerInstance, Stack, Entries, TotalPerName,
            CountPerName, Scopes, tpState, tpOut, tpHist>>

dmVars == <<NumBuckets, Buckets, NumEntries, NumTombstones, dmState, dmRef,
            dmLast>>

\* What no step of the pass writes.
others == <<input, unreachable, tpVars, dmVars>>

legVars == <<life, opc, use, MFsize, FailedISel, InstList, ArtifactList,
             pc, MI, Res, Changed, NumBlocks, observing, diag,
             ret, fuel, run, settled, orphan, modified, last, deadAtCall,
             input, unreachable, hist>>

progVars == <<life, opc, use, MFsize>>

(***************************************************************************)
(* The program.                                                            *)
(***************************************************************************)
Live == {i \in Ids : life[i] = "live"}

\* The instructions that read the value of i.
Users(i) == {j \in Live : use[j] = i}

\* Whether following the operand chain from j reaches i.
RECURSIVE Reaches(_, _, _)
Reaches(j, i, n) ==
    IF j = NoReg \/ n = 0 THEN FALSE
    ELSE IF j = i THEN TRUE
    ELSE Reaches(use[j], i, n - 1)

\* isTriviallyDead(MI, MRI): no use of its value and no side effect.
isTriviallyDead(i) == Users(i) = {} /\ ~hasSideEffect(opc[i])

(***************************************************************************)
(* GISelWorkList: a set with insertion order.                              *)
(***************************************************************************)
Range(s) == {s[k] : k \in 1..Len(s)}

\* A worklist whose insert does not look for the instruction first; the
\* uniqueness of the worklists is tested against it.
WLInsertUnchecked(wl, i) == Append(wl, i)

WLInsert(wl, i) == IF i \in Range(wl) THEN wl ELSE Append(wl, i)

WLRemove(wl, i) == SelectSeq(wl, LAMBDA x : x # i)

WLBack(wl) == wl[Len(wl)]

WLPopBack(wl) == SubSeq(wl, 1, Len(wl) - 1)

(***************************************************************************)
(* LegalizerWorkListManager.  q is the pair of worklists                   *)
(* [inst |-> InstList, art |-> ArtifactList]; o is MI.getOpcode().         *)
(***************************************************************************)
Q == [inst |-> InstList, art |-> ArtifactList]

\* An observer that puts every eligible instruction into the primary worklist;
\* the classification by opcode is tested against it.
createdInstrPrimaryOnly(q, i, o) ==
    IF isPreISelGenericOpcode(o)
    THEN [q EXCEPT !.inst = WLInsert(@, i)]
    ELSE q

\* An observer that does not look at the eligibility of the opcode; the
\* notifications for other instructions are tested against it.
createdInstrAnyOpcode(q, i, o) ==
    IF isArtifact(o)
    THEN [q EXCEPT !.art = WLInsert(@, i)]
    ELSE [q EXCEPT !.inst = WLInsert(@, i)]

createdInstr(q, i, o) ==
    IF isPreISelGenericOpcode(o)
    THEN IF isArtifact(o)
         THEN [q EXCEPT !.art = WLInsert(@, i)]
         ELSE [q EXCEPT !.inst = WLInsert(@, i)]
    ELSE q

\* An observer whose erasing notification leaves the artifact worklist alone;
\* the effect of erasing is tested against it.
erasingInstrPrimaryOnly(q, i) ==
    [inst |-> WLRemove(q.inst, i), art |-> q.art]

erasingInstr(q, i) ==
    [inst |-> WLRemove(q.inst, i), art |-> WLRemove(q.art, i)]

changingInstr(q, i) == q

changedInstr(q, i, o) == createdInstr(q, i, o)

\* auto RemoveDeadInstFromLists = [&](MachineInstr *DeadMI) {...}
RemoveDeadInstFromLists(q, i) == erasingInstr(q, i)

(***************************************************************************)
(* Seeding: the scan of lines 135-148, in program order (the initial       *)
(* program numbers its instructions in the order of the scan).  The        *)
(* reverse post-order traversal starts at the entry block: it visits the   *)
(* blocks a path from the entry block reaches, and no other.               *)
(***************************************************************************)
\* ReversePostOrderTraversal<MachineFunction *> RPOT(&MF): the instructions
\* of the blocks the traversal visits.
RPOT == Ids \ unreachable

\* A scan over every block of the function, reachable or not; the coverage
\* of the seeding is tested against it.
RECURSIVE SeedFromEveryBlock(_, _)
SeedFromEveryBlock(i, q) ==
    IF i \notin Ids THEN q
    ELSE IF life[i] # "live" \/ ~isPreISelGenericOpcode(opc[i])
         THEN SeedFromEveryBlock(i + 1, q)
    ELSE IF isArtifact(opc[i])
         THEN SeedFromEveryBlock(i + 1, [q EXCEPT !.art = WLInsert(@, i)])
    ELSE SeedFromEveryBlock(i + 1, [q EXCEPT !.inst = WLInsert(@, i)])

\* A scan that adds the instructions bottom up; the order of the seeding is
\* tested against it.
RECURSIVE SeedFromBottomUp(_, _)
SeedFromBottomUp(i, q) ==
    LET j == MaxId + 1 - i IN
    IF i \notin Ids THEN q
    ELSE IF life[j] # "live" \/ j \notin RPOT
            \/ ~isPreISelGenericOpcode(opc[j])
         THEN SeedFromBottomUp(i + 1, q)
    ELSE IF isArtifact(opc[j])
         THEN SeedFromBottomUp(i + 1, [q EXCEPT !.art = WLInsert(@, j)])
    ELSE SeedFromBottomUp(i + 1, [q EXCEPT !.inst = WLInsert(@, j)])

RECURSIVE SeedFrom(_, _)
SeedFrom(i, q) ==
    IF i \notin Ids THEN q
    ELSE IF life[i] # "live" \/ i \notin RPOT
            \/ ~isPreISelGenericOpcode(opc[i])
         THEN SeedFrom(i + 1, q)
    ELSE IF isArtifact(opc[i])
         THEN SeedFrom(i + 1, [q EXCEPT !.art = WLInsert(@, i)])
    ELSE SeedFrom(i + 1, [q EXCEPT !.inst = WLInsert(@, i)])

Seeded == SeedFrom(1, [inst |-> <<>>, art |-> <<>>])

(***************************************************************************)
(* A record of the last step's observer call (created, changed, erasing)   *)
(* or direct worklist insert: the instruction, and whether it was a member *)
(* of the primary and of the artifact worklist before the call.            *)
(***************************************************************************)
NoNote == [kind |-> "none", instr |-> NoReg, inInst |-> FALSE, inArt |-> FALSE]

Note(k, i) ==
    [kind |-> k, instr |-> i,
     inInst |-> i \in Range(InstList), inArt |-> i \in Range(ArtifactList)]

(***************************************************************************)
(* Initial states: a program of n instructions in program order, each      *)
(* reading the value of an earlier one or none.                            *)
(***************************************************************************)
\* The example program, and whether the program is the example.
ExampleProgram ==
    /\ life = [i \in Ids |-> IF i <= Len(ExampleOpc) THEN "live" ELSE "new"]
    /\ opc = [i \in Ids |-> IF i <= Len(ExampleOpc) THEN ExampleOpc[i] ELSE "COPY"]
    /\ use = [i \in Ids |-> IF i <= Len(ExampleUse) THEN ExampleUse[i] ELSE NoReg]
    /\ unreachable = {}

\* A program of n instructions.
ProgramOf(n) ==
    /\ life = [i \in Ids |-> IF i <= n THEN "live"
                              ELSE IF i <= MaxInstr THEN "new" ELSE "gone"]
    /\ opc \in [Ids -> Opcodes]
    /\ use \in [Ids -> {NoReg} \cup Ids]
    /\ \A i \in Ids : i > n => opc[i] = "COPY" /\ use[i] = NoReg
    /\ \A i \in Ids : i <= n => use[i] < i

\* Every block of the function is reachable from the entry block.
InitProgram ==
    \E n \in 1..MaxInstr :
        /\ ProgramOf(n)
        /\ unreachable = {}

\* Some blocks of the function may be unreachable from the entry block; no
\* instruction of a reachable block reads a value defined in such a block.
InitProgramBlocks ==
    \E n \in 1..MaxInstr :
        /\ ProgramOf(n)
        /\ unreachable \in SUBSET (1..n)
        /\ \A i \in (1..n) \ unreachable : use[i] \notin unreachable

\* The time profiler before any call: TimeTraceProfilerInstance = nullptr.
Names == {"a", "b"}

NoCall == [call |-> "none", begun |-> 0, ended |-> 0, sect |-> 0, inits |-> 0,
           endCalled |-> FALSE, ownSection |-> FALSE]

ProfilerIdle ==
    /\ TimeTraceProfilerInstance = 0
    /\ Stack = <<>>
    /\ Entries = <<>>
    /\ TotalPerName = [n \in Names |-> 0]
    /\ CountPerName = [n \in Names |-> 0]
    /\ Scopes = <<>>
    /\ tpState = "ok"
    /\ tpOut = "none"
    /\ tpHist = NoCall

(***************************************************************************)
(* llvm/ADT/DenseMap.h.  Keys are pointers (DenseMapKeyInfo<T*>, lines      *)
(* 34-42); the empty and the tombstone key are the pointers -1 and -2.      *)
(***************************************************************************)
getEmptyKey == 0 - 1
getTombstoneKey == 0 - 2

\* The second of a bucket that holds no value, and the result of end().
NoValue == 0 - 1

\* No DenseMap has been constructed.
DenseMapIdle ==
    /\ NumBuckets = 0
    /\ Buckets = <<>>
    /\ NumEntries = 0
    /\ NumTombstones = 0
    /\ dmState = "none"
    /\ dmRef = <<>>
    /\ dmLast = <<>>

(***************************************************************************)
(* The history of a run:                                                   *)
(*   failed    the instructions a failed combine moved to the primary      *)
(*             worklist;                                                   *)
(*   same      those of them not changed since;                            *)
(*   waiting   those of them neither popped from the primary worklist nor  *)
(*             erased since;                                               *)
(*   combined  the instructions erased from a dead list;                   *)
(*   removed   those of them that were in a worklist;                      *)
(*   dead      the instructions found dead when popped and erased;         *)
(*   late      the instructions a notification inserted into the artifact  *)
(*             worklist while it had members;                              *)
(*   step      the result of the last legalizeInstrStep;                   *)
(*   progress  whether a step returned Legalized or a combine succeeded.   *)
(* The history is kept in the runs whose callees have an edit budget.      *)
(***************************************************************************)
NoHist == [failed |-> {}, same |-> {}, waiting |-> {}, combined |-> {},
           removed |-> {}, dead |-> {}, late |-> {}, step |-> "none",
           progress |-> FALSE]

Kept(h) == IF fuel = Unlimited THEN hist ELSE h

\* Instruction i is popped from the primary worklist.
Popped(i) == Kept([hist EXCEPT !.waiting = @ \ {i}])

\* Whether a notification that leaves the artifact worklist as art inserted i
\* behind other members.
InsertedLate(i, art) ==
    IF ArtifactList # <<>> /\ i \notin Range(ArtifactList) /\ i \in Range(art)
    THEN {i}
    ELSE {}

\* Instruction i is created, and the artifact worklist becomes art.
Created(i, art) == Kept([hist EXCEPT !.late = @ \cup InsertedLate(i, art)])

\* Instruction i is changed in place, and the artifact worklist becomes art.
Rewritten(i, art) ==
    Kept([hist EXCEPT !.same = @ \ {i}, !.late = @ \cup InsertedLate(i, art)])

\* Instruction i is erased.
Touched(i) == Kept([hist EXCEPT !.waiting = @ \ {i}, !.same = @ \ {i}])

\* Instruction i is popped, found dead and erased.
ErasedDead(i) == Kept([hist EXCEPT !.waiting = @ \ {i}, !.same = @ \ {i},
                                   !.dead = @ \cup {i}])

InitRest ==
    /\ ProfilerIdle
    /\ DenseMapIdle
    /\ MFsize = 1
    /\ FailedISel \in BOOLEAN
    /\ InstList = <<>>
    /\ ArtifactList = <<>>
    /\ pc = "Entry"
    /\ MI = NoReg
    /\ Res = "none"
    /\ Changed = FALSE
    /\ NumBlocks = 0
    /\ observing = FALSE
    /\ diag = <<>>
    /\ ret = FALSE
    /\ run = 1
    /\ settled = {}
    /\ orphan = NoReg
    /\ modified = FALSE
    /\ last = NoNote
    /\ deadAtCall = {}
    /\ input = IF ExampleProgram THEN "example" ELSE "bounded"
    /\ hist = NoHist

Init == InitProgram /\ InitRest /\ fuel = MaxNotify


(***************************************************************************)
(* MachineInstr::eraseFromParentAndMarkDBGValuesForRemoval: the            *)
(* instruction leaves the program; its identity is never reused.           *)
(***************************************************************************)
EraseFromParent(i) ==
    /\ life' = [life EXCEPT ![i] = "gone"]
    /\ opc' = [opc EXCEPT ![i] = "COPY"]
    /\ use' = [use EXCEPT ![i] = NoReg]

\* Spending one edit of the callees' budget.
Spend == IF fuel = Unlimited THEN Unlimited ELSE fuel - 1

\* An entry that seeds the worklists before it looks at FailedISel; the early
\* return is tested against it.
EntrySeedsFirst ==
    /\ pc = "Entry"
    /\ InstList' = Seeded.inst
    /\ ArtifactList' = Seeded.art
    /\ IF FailedISel
       THEN /\ pc' = "Skipped"
            /\ ret' = FALSE
            /\ UNCHANGED <<NumBlocks, observing, Changed>>
       ELSE /\ pc' = "Primary"
            /\ NumBlocks' = MFsize
            /\ observing' = TRUE
            /\ Changed' = FALSE
            /\ ret' = FALSE
    /\ UNCHANGED <<progVars, FailedISel, MI, Res, diag, fuel,
                   run, settled, orphan>>
    /\ modified' = FALSE
    /\ last' = NoNote
    /\ UNCHANGED deadAtCall
    /\ hist' = NoHist
    /\ UNCHANGED others

(***************************************************************************)
(* Lines 115-156: the FailedISel early return, then NumBlocks, the         *)
(* seeding scan, the observer and Changed = false.                         *)
(***************************************************************************)
Entry ==
    /\ pc = "Entry"
    /\ IF FailedISel
       THEN /\ pc' = "Skipped"
            /\ ret' = FALSE
            /\ UNCHANGED <<InstList, ArtifactList, NumBlocks, observing, Changed>>
       ELSE /\ pc' = "Primary"
            /\ NumBlocks' = MFsize
            /\ InstList' = Seeded.inst
            /\ ArtifactList' = Seeded.art
            /\ observing' = TRUE
            /\ Changed' = FALSE
            /\ ret' = FALSE
    /\ UNCHANGED <<progVars, FailedISel, MI, Res, diag, fuel,
                   run, settled, orphan>>
    /\ modified' = FALSE
    /\ last' = NoNote
    /\ UNCHANGED deadAtCall
    /\ hist' = NoHist
    /\ UNCHANGED others

(***************************************************************************)
(* Lines 158-165: the primary loop's condition, pop, assertion and         *)
(* dead-code erasure.                                                      *)
(***************************************************************************)
\* while (!InstList.empty()) is false: fall through to the artifact loop.
PrimaryExit ==
    /\ pc = "Primary"
    /\ InstList = <<>>
    /\ pc' = "Artifacts"
    /\ UNCHANGED <<progVars, FailedISel, InstList, ArtifactList,
                   MI, Res, Changed, NumBlocks, observing,
                   diag, ret, fuel, run, settled, orphan>>
    /\ last' = NoNote
    /\ UNCHANGED modified
    /\ UNCHANGED deadAtCall
    /\ UNCHANGED hist
    /\ UNCHANGED others

\* assert(isPreISelGenericOpcode(MI.getOpcode())) fails in an asserts build.
PrimaryAssert ==
    /\ pc = "Primary"
    /\ InstList # <<>>
    /\ ~isPreISelGenericOpcode(opc[WLBack(InstList)])
    /\ pc' = "Aborted"
    /\ MI' = WLBack(InstList)
    /\ InstList' = WLPopBack(InstList)
    /\ UNCHANGED <<progVars, FailedISel, ArtifactList, Res,
                   Changed, NumBlocks, observing, diag, ret, fuel, run,
                   settled, orphan>>
    /\ last' = NoNote
    /\ UNCHANGED modified
    /\ UNCHANGED deadAtCall
    /\ hist' = Popped(WLBack(InstList))
    /\ UNCHANGED others

\* isTriviallyDead(MI, MRI): erase MI (no observer call on this path).
PrimaryDead ==
    /\ pc = "Primary"
    /\ InstList # <<>>
    /\ LET mi == WLBack(InstList) IN
        /\ isTriviallyDead(mi)
        /\ EraseFromParent(mi)
        /\ settled' = settled \ {mi}
        /\ orphan' = IF orphan = mi THEN NoReg ELSE orphan
    /\ InstList' = WLPopBack(InstList)
    /\ UNCHANGED <<MFsize, FailedISel, ArtifactList, pc, MI,
                   Res, Changed, NumBlocks, observing, diag, ret, fuel, run>>
    /\ modified' = TRUE
    /\ last' = NoNote
    /\ UNCHANGED deadAtCall
    /\ hist' = ErasedDead(WLBack(InstList))
    /\ UNCHANGED others

\* A primary loop that calls the driver without the dead-code check; the
\* check at every pop is tested against it.
PrimaryLiveUnchecked ==
    /\ pc = "Primary"
    /\ InstList # <<>>
    /\ MI' = WLBack(InstList)
    /\ InstList' = WLPopBack(InstList)
    /\ pc' = "LegalizeStart"
    /\ UNCHANGED <<progVars, FailedISel, ArtifactList, Res,
                   Changed, NumBlocks, observing, diag, ret, fuel, run,
                   settled, orphan>>
    /\ last' = NoNote
    /\ UNCHANGED modified
    /\ UNCHANGED deadAtCall
    /\ hist' = Popped(WLBack(InstList))
    /\ UNCHANGED others

\* MI is live: Helper.legalizeInstrStep(MI) is called.
PrimaryLive ==
    /\ pc = "Primary"
    /\ InstList # <<>>
    /\ ~isTriviallyDead(WLBack(InstList))
    /\ MI' = WLBack(InstList)
    /\ InstList' = WLPopBack(InstList)
    /\ pc' = "LegalizeStart"
    /\ UNCHANGED <<progVars, FailedISel, ArtifactList, Res,
                   Changed, NumBlocks, observing, diag, ret, fuel, run,
                   settled, orphan>>
    /\ last' = NoNote
    /\ UNCHANGED modified
    /\ UNCHANGED deadAtCall
    /\ hist' = Popped(WLBack(InstList))
    /\ UNCHANGED others

(***************************************************************************)
(* The external callees.  Between its call and its return the driver       *)
(* (pc = "LegalizeStart", "Legalize") or the combiner (pc =                *)
(* "CombineStart", "Combine") edits the program one primitive at a time:   *)
(* insert an instruction, change one in place, erase one.  Each edit is    *)
(* reported to the observer.  A callee is a function of the instruction:   *)
(* it makes no edit for an instruction it already found in order           *)
(* (settled).                                                              *)
(***************************************************************************)
InDriver == pc \in {"LegalizeStart", "Legalize"}

InCombiner == pc \in {"CombineStart", "Combine"}

CalleeMayEdit ==
    /\ InDriver \/ InCombiner
    /\ fuel # 0
    /\ pc \in {"LegalizeStart", "CombineStart"} => MI \notin settled

AfterEdit == IF InDriver THEN "Legalize" ELSE "Combine"

\* The identity the next created instruction gets.
NextId == CHOOSE j \in Ids : life[j] = "new" /\ \A k \in 1..(j - 1) : life[k] # "new"

\* The producer that loses its only use when the driver rewrites MI's operand
\* from use[MI] to u (or erases MI), if any.
Orphaned(i, u) ==
    IF InDriver /\ i = MI /\ use[i] # NoReg /\ u # use[i] /\ Users(use[i]) = {i}
    THEN use[i]
    ELSE IF orphan # NoReg /\ orphan \in {u, i} THEN NoReg
    ELSE orphan

\* MIRBuilder.buildInstr(...): a new instruction; Observer.createdInstr.
OracleCreate(o, u) ==
    /\ CalleeMayEdit
    /\ \E j \in Ids : life[j] = "new"
    /\ u \in {NoReg} \cup Live
    /\ life' = [life EXCEPT ![NextId] = "live"]
    /\ opc' = [opc EXCEPT ![NextId] = o]
    /\ use' = [use EXCEPT ![NextId] = u]
    /\ LET q == createdInstr(Q, NextId, o) IN
        /\ InstList' = q.inst
        /\ ArtifactList' = q.art
    /\ orphan' = IF orphan # NoReg /\ orphan = u THEN NoReg ELSE orphan
    /\ fuel' = Spend
    /\ pc' = AfterEdit
    /\ UNCHANGED <<MFsize, FailedISel, MI, Res, Changed,
                   NumBlocks, observing, diag, ret, run, settled>>
    /\ modified' = TRUE
    /\ last' = Note("created", NextId)
    /\ UNCHANGED deadAtCall
    /\ hist' = Created(NextId, createdInstr(Q, NextId, o).art)
    /\ UNCHANGED others

\* Observer.changingInstr(I); I's opcode and operand are set; Observer.changedInstr(I).
OracleChange(i, o, u) ==
    /\ CalleeMayEdit
    /\ i \in Live
    /\ u \in {NoReg} \cup (Live \ {i})
    /\ ~Reaches(u, i, MaxId)
    /\ opc' = [opc EXCEPT ![i] = o]
    /\ use' = [use EXCEPT ![i] = u]
    /\ LET q == changedInstr(changingInstr(Q, i), i, o) IN
        /\ InstList' = q.inst
        /\ ArtifactList' = q.art
    /\ settled' = settled \ {i}
    /\ orphan' = Orphaned(i, u)
    /\ fuel' = Spend
    /\ pc' = AfterEdit
    /\ UNCHANGED <<life, MFsize, FailedISel, MI, Res, Changed,
                   NumBlocks, observing, diag, ret, run>>
    /\ modified' = TRUE
    /\ last' = Note("changed", i)
    /\ UNCHANGED deadAtCall
    /\ hist' = Rewritten(i, changedInstr(changingInstr(Q, i), i, o).art)
    /\ UNCHANGED others

\* Observer.erasingInstr(MI); MI.eraseFromParent(): the driver erases the
\* instruction it was called on, once nothing reads it.  (What the combiner
\* makes dead it lists, and the pass erases.)
OracleErase ==
    /\ CalleeMayEdit
    /\ InDriver
    /\ MI \in Live
    /\ Users(MI) = {}
    /\ EraseFromParent(MI)
    /\ LET q == erasingInstr(Q, MI) IN
        /\ InstList' = q.inst
        /\ ArtifactList' = q.art
    /\ settled' = settled \ {MI}
    /\ orphan' = Orphaned(MI, NoReg)
    /\ fuel' = Spend
    /\ pc' = AfterEdit
    /\ UNCHANGED <<MFsize, FailedISel, MI, Res, Changed,
                   NumBlocks, observing, diag, ret, run>>
    /\ modified' = TRUE
    /\ last' = Note("erasing", MI)
    /\ UNCHANGED deadAtCall
    /\ hist' = Touched(MI)
    /\ UNCHANGED others

\* The driver splits control flow: a basic block is added to the function.
OracleAddBlock ==
    /\ CalleeMayEdit
    /\ InDriver
    /\ MFsize < NumBlocks + MaxNewBlocks
    /\ MFsize' = MFsize + 1
    /\ fuel' = Spend
    /\ pc' = AfterEdit
    /\ UNCHANGED <<life, opc, use, FailedISel, InstList, ArtifactList,
                   MI, Res, Changed, NumBlocks, observing,
                   diag, ret, run, settled, orphan>>
    /\ modified' = TRUE
    /\ last' = NoNote
    /\ UNCHANGED deadAtCall
    /\ UNCHANGED hist
    /\ UNCHANGED others

\* A flag that every successful step sets; the flag's update is tested
\* against it.
ChangedAfterAnySuccess(res) == TRUE

\* Changed |= Res == LegalizerHelper::Legalized;
ChangedAfter(res) == Changed \/ res = "Legalized"

\* A driver return that, on UnableToLegalize, goes back to the primary loop
\* instead of leaving the pass; the hard stop is tested against it.
LegalizeReturnRetry(res) ==
    /\ InDriver
    /\ \/ pc = "LegalizeStart" /\ res = "AlreadyLegal"
       \/ pc = "Legalize" /\ res = "Legalized"
       \/ res = "UnableToLegalize" /\ MI \notin settled
    /\ IF res = "UnableToLegalize"
       THEN /\ observing' = FALSE
            /\ diag' = Append(diag, [reason |-> "unable to legalize instruction",
                                     instr |-> MI])
            /\ pc' = "Primary"
            /\ Res' = res
            /\ UNCHANGED <<MI, Changed, settled, ret>>
       ELSE /\ Changed' = ChangedAfter(res)
            /\ settled' = IF res = "AlreadyLegal" THEN settled \cup {MI} ELSE settled
            /\ pc' = "Primary"
            /\ MI' = NoReg
            /\ Res' = "none"
            /\ UNCHANGED <<observing, diag, ret>>
    /\ UNCHANGED <<progVars, FailedISel, InstList, ArtifactList, NumBlocks,
                   fuel, run, orphan>>
    /\ last' = NoNote
    /\ UNCHANGED modified
    /\ UNCHANGED deadAtCall
    /\ hist' = Kept([hist EXCEPT !.step = res,
                                !.progress = @ \/ res = "Legalized"])
    /\ UNCHANGED others

\* A driver return whose failure exit returns Changed instead of false; the
\* flag returned on failure is tested against it.
LegalizeReturnChanged(res) ==
    /\ InDriver
    /\ \/ pc = "LegalizeStart" /\ res = "AlreadyLegal"
       \/ pc = "Legalize" /\ res = "Legalized"
       \/ res = "UnableToLegalize" /\ MI \notin settled
    /\ IF res = "UnableToLegalize"
       THEN /\ observing' = FALSE
            /\ diag' = Append(diag, [reason |-> "unable to legalize instruction",
                                     instr |-> MI])
            /\ ret' = Changed
            /\ pc' = "Failed"
            /\ Res' = res
            /\ UNCHANGED <<MI, Changed, settled>>
       ELSE /\ Changed' = ChangedAfter(res)
            /\ settled' = IF res = "AlreadyLegal" THEN settled \cup {MI} ELSE settled
            /\ pc' = "Primary"
            /\ MI' = NoReg
            /\ Res' = "none"
            /\ UNCHANGED <<observing, diag, ret>>
    /\ UNCHANGED <<progVars, FailedISel, InstList, ArtifactList, NumBlocks,
                   fuel, run, orphan>>
    /\ last' = NoNote
    /\ UNCHANGED modified
    /\ UNCHANGED deadAtCall
    /\ hist' = Kept([hist EXCEPT !.step = res,
                                !.progress = @ \/ res = "Legalized"])
    /\ UNCHANGED others

(***************************************************************************)
(* Lines 168-177: Res = Helper.legalizeInstrStep(MI) returns.              *)
(* AlreadyLegal: no change was made; Legalized: the function changed;      *)
(* UnableToLegalize: at any point.  Then the failure exit, or              *)
(* Changed |= Res == Legalized.                                            *)
(***************************************************************************)
LegalizeReturn(res) ==
    /\ InDriver
    /\ \/ pc = "LegalizeStart" /\ res = "AlreadyLegal"
       \/ pc = "Legalize" /\ res = "Legalized"
       \/ res = "UnableToLegalize" /\ MI \notin settled
    /\ IF res = "UnableToLegalize"
       THEN /\ observing' = FALSE
            /\ diag' = Append(diag, [reason |-> "unable to legalize instruction",
                                     instr |-> MI])
            /\ ret' = FALSE
            /\ pc' = "Failed"
            /\ Res' = res
            /\ UNCHANGED <<MI, Changed, settled>>
       ELSE /\ Changed' = ChangedAfter(res)
            /\ settled' = IF res = "AlreadyLegal" THEN settled \cup {MI} ELSE settled
            /\ pc' = "Primary"
            /\ MI' = NoReg
            /\ Res' = "none"
            /\ UNCHANGED <<observing, diag, ret>>
    /\ UNCHANGED <<progVars, FailedISel, InstList, ArtifactList, NumBlocks,
                   fuel, run, orphan>>
    /\ last' = NoNote
    /\ UNCHANGED modified
    /\ UNCHANGED deadAtCall
    /\ hist' = Kept([hist EXCEPT !.step = res,
                                !.progress = @ \/ res = "Legalized"])
    /\ UNCHANGED others

(***************************************************************************)
(* Lines 179-187: the artifact loop's condition, pop, assertion and        *)
(* dead-code erasure.                                                      *)
(***************************************************************************)
\* The popped pointer refers to an instruction that was erased: a use after
\* free.  The build either crashes or reads stale memory and carries on.
ArtifactDangling ==
    /\ pc = "Artifacts"
    /\ ArtifactList # <<>>
    /\ life[WLBack(ArtifactList)] # "live"
    /\ ArtifactList' = WLPopBack(ArtifactList)
    /\ pc' \in {"Crashed", "Artifacts"}
    /\ UNCHANGED <<progVars, FailedISel, InstList, MI, Res,
                   Changed, NumBlocks, observing, diag, ret, fuel, run,
                   settled, orphan>>
    /\ last' = NoNote
    /\ UNCHANGED modified
    /\ UNCHANGED deadAtCall
    /\ UNCHANGED hist
    /\ UNCHANGED others

\* assert(isPreISelGenericOpcode(MI.getOpcode())) fails in an asserts build.
ArtifactAssert ==
    /\ pc = "Artifacts"
    /\ ArtifactList # <<>>
    /\ life[WLBack(ArtifactList)] = "live"
    /\ ~isPreISelGenericOpcode(opc[WLBack(ArtifactList)])
    /\ pc' = "Aborted"
    /\ MI' = WLBack(ArtifactList)
    /\ ArtifactList' = WLPopBack(ArtifactList)
    /\ UNCHANGED <<progVars, FailedISel, InstList, Res,
                   Changed, NumBlocks, observing, diag, ret, fuel, run,
                   settled, orphan>>
    /\ last' = NoNote
    /\ UNCHANGED modified
    /\ UNCHANGED deadAtCall
    /\ UNCHANGED hist
    /\ UNCHANGED others

\* An artifact loop that drops a dead artifact from the lists and leaves it in
\* the program; the outcome of the example is tested against it.
ArtifactDeadKeep ==
    /\ pc = "Artifacts"
    /\ ArtifactList # <<>>
    /\ LET mi == WLBack(ArtifactList)
           q == RemoveDeadInstFromLists(
                    [inst |-> InstList, art |-> WLPopBack(ArtifactList)], mi)
       IN
        /\ life[mi] = "live"
        /\ isTriviallyDead(mi)
        /\ InstList' = q.inst
        /\ ArtifactList' = q.art
        /\ UNCHANGED <<life, opc, use>>
        /\ settled' = settled \ {mi}
        /\ orphan' = IF orphan = mi THEN NoReg ELSE orphan
    /\ UNCHANGED <<MFsize, FailedISel, pc, MI, Res, Changed,
                   NumBlocks, observing, diag, ret, fuel, run>>
    /\ modified' = TRUE
    /\ last' = [kind |-> "erasing", instr |-> WLBack(ArtifactList),
                inInst |-> WLBack(ArtifactList) \in Range(InstList), inArt |-> FALSE]
    /\ UNCHANGED deadAtCall
    /\ hist' = Touched(WLBack(ArtifactList))
    /\ UNCHANGED others

\* isTriviallyDead(MI, MRI): RemoveDeadInstFromLists(&MI), then erase MI.
ArtifactDead ==
    /\ pc = "Artifacts"
    /\ ArtifactList # <<>>
    /\ LET mi == WLBack(ArtifactList)
           q == RemoveDeadInstFromLists(
                    [inst |-> InstList, art |-> WLPopBack(ArtifactList)], mi)
       IN
        /\ life[mi] = "live"
        /\ isTriviallyDead(mi)
        /\ InstList' = q.inst
        /\ ArtifactList' = q.art
        /\ EraseFromParent(mi)
        /\ settled' = settled \ {mi}
        /\ orphan' = IF orphan = mi THEN NoReg ELSE orphan
    /\ UNCHANGED <<MFsize, FailedISel, pc, MI, Res, Changed,
                   NumBlocks, observing, diag, ret, fuel, run>>
    /\ modified' = TRUE
    /\ last' = [kind |-> "erasing", instr |-> WLBack(ArtifactList),
                inInst |-> WLBack(ArtifactList) \in Range(InstList), inArt |-> FALSE]
    /\ UNCHANGED deadAtCall
    /\ hist' = ErasedDead(WLBack(ArtifactList))
    /\ UNCHANGED others

\* MI is live: ArtCombiner.tryCombineInstruction(MI, DeadInstructions) is called.
ArtifactLive ==
    /\ pc = "Artifacts"
    /\ ArtifactList # <<>>
    /\ life[WLBack(ArtifactList)] = "live"
    /\ ~isTriviallyDead(WLBack(ArtifactList))
    /\ MI' = WLBack(ArtifactList)
    /\ ArtifactList' = WLPopBack(ArtifactList)
    /\ pc' = "CombineStart"
    /\ UNCHANGED <<progVars, FailedISel, InstList, Res,
                   Changed, NumBlocks, observing, diag, ret, fuel, run,
                   settled, orphan>>
    /\ last' = NoNote
    /\ UNCHANGED modified
    /\ deadAtCall' = {i \in Ids : life[i] # "live" \/ isTriviallyDead(i)}
    /\ UNCHANGED hist
    /\ UNCHANGED others

(***************************************************************************)
(* The combiner's dead list, SmallVector<MachineInstr *, 4>                *)
(* DeadInstructions, as the set of its members.  The combiner lists the    *)
(* instructions its combination made dead: every user of a member is a     *)
(* member, and an instruction that is dead once the members are erased was *)
(* dead already when the combiner was called.                              *)
(***************************************************************************)
DeadLists ==
    {d \in SUBSET Live :
        /\ \A i \in d : Users(i) \subseteq d
        /\ \A i \in Live \ d :
              (Users(i) \subseteq d /\ ~hasSideEffect(opc[i])) => i \in deadAtCall}

\* RemoveDeadInstFromLists for each member of the dead list d.
RECURSIVE RemoveAll(_, _)
RemoveAll(q, d) ==
    IF d = {} THEN q
    ELSE LET i == CHOOSE x \in d : TRUE
         IN RemoveAll(RemoveDeadInstFromLists(q, i), d \ {i})

(***************************************************************************)
(* Lines 189-197: tryCombineInstruction returned true, having edited the   *)
(* program or listed dead instructions; every instruction of the dead list *)
(* is removed from the lists and erased; Changed = true.                   *)
(***************************************************************************)
CombineReturnTrue(dead) ==
    /\ InCombiner
    /\ dead \in DeadLists
    /\ pc = "CombineStart" => dead # {} /\ MI \notin settled
    /\ LET q == RemoveAll(Q, dead) IN
        /\ InstList' = q.inst
        /\ ArtifactList' = q.art
    /\ life' = [i \in Ids |-> IF i \in dead THEN "gone" ELSE life[i]]
    /\ opc' = [i \in Ids |-> IF i \in dead THEN "COPY" ELSE opc[i]]
    /\ use' = [i \in Ids |-> IF i \in dead THEN NoReg ELSE use[i]]
    /\ settled' = settled \ dead
    /\ orphan' = IF orphan \in dead THEN NoReg ELSE orphan
    /\ Changed' = TRUE
    /\ MI' = NoReg
    /\ pc' = "Artifacts"
    /\ UNCHANGED <<MFsize, FailedISel, Res, NumBlocks, observing, diag, ret,
                   fuel, run>>
    /\ modified' = TRUE
    /\ last' = NoNote
    /\ deadAtCall' = {}
    /\ hist' = Kept([hist EXCEPT !.combined = @ \cup dead,
                                !.removed = @ \cup (dead \cap (Range(InstList)
                                                   \cup Range(ArtifactList))),
                                !.waiting = @ \ dead,
                                !.same = @ \ dead,
                                !.progress = TRUE])
    /\ UNCHANGED others

\* A failed combine that puts MI back into the artifact worklist instead of
\* the primary one; termination is tested against it.
CombineReturnFalseRequeue ==
    /\ pc = "CombineStart"
    /\ ArtifactList' = WLInsert(ArtifactList, MI)
    /\ MI' = NoReg
    /\ pc' = "Artifacts"
    /\ UNCHANGED <<progVars, FailedISel, InstList, Res,
                   Changed, NumBlocks, observing, diag, ret, fuel, run,
                   settled, orphan>>
    /\ last' = Note("insert", MI)
    /\ UNCHANGED modified
    /\ deadAtCall' = {}
    /\ hist' = Kept([hist EXCEPT !.failed = @ \cup {MI},
                                !.same = @ \cup {MI},
                                !.waiting = @ \cup {MI}])
    /\ UNCHANGED others

(***************************************************************************)
(* Lines 198-202: tryCombineInstruction returned false, having changed     *)
(* nothing; InstList.insert(&MI).                                          *)
(***************************************************************************)
CombineReturnFalse ==
    /\ pc = "CombineStart"
    /\ InstList' = WLInsert(InstList, MI)
    /\ MI' = NoReg
    /\ pc' = "Artifacts"
    /\ UNCHANGED <<progVars, FailedISel, ArtifactList, Res,
                   Changed, NumBlocks, observing, diag, ret, fuel, run,
                   settled, orphan>>
    /\ last' = Note("insert", MI)
    /\ UNCHANGED modified
    /\ deadAtCall' = {}
    /\ hist' = Kept([hist EXCEPT !.failed = @ \cup {MI},
                                !.same = @ \cup {MI},
                                !.waiting = @ \cup {MI}])
    /\ UNCHANGED others

\* An outer loop whose condition is evaluated while artifacts are still
\* queued; the emptiness of the artifact worklist is tested against it.
LoopBackEarly ==
    /\ pc = "Artifacts"
    /\ InstList # <<>>
    /\ pc' = "Primary"
    /\ UNCHANGED <<progVars, FailedISel, InstList, ArtifactList,
                   MI, Res, Changed, NumBlocks, observing,
                   diag, ret, fuel, run, settled, orphan>>
    /\ last' = NoNote
    /\ UNCHANGED modified
    /\ UNCHANGED deadAtCall
    /\ UNCHANGED hist
    /\ UNCHANGED others

(***************************************************************************)
(* Line 204: } while (!InstList.empty()), evaluated when the artifact      *)
(* loop's condition is false.                                              *)
(***************************************************************************)
LoopBack ==
    /\ pc = "Artifacts"
    /\ ArtifactList = <<>>
    /\ InstList # <<>>
    /\ pc' = "Primary"
    /\ UNCHANGED <<progVars, FailedISel, InstList, ArtifactList,
                   MI, Res, Changed, NumBlocks, observing,
                   diag, ret, fuel, run, settled, orphan>>
    /\ last' = NoNote
    /\ UNCHANGED modified
    /\ UNCHANGED deadAtCall
    /\ UNCHANGED hist
    /\ UNCHANGED others

\* A post-check that reports the new blocks and lets the run succeed; the
\* block-count check is tested against it.
PostCheckLenient ==
    /\ pc = "Artifacts"
    /\ ArtifactList = <<>>
    /\ InstList = <<>>
    /\ IF MFsize # NumBlocks
       THEN /\ diag' = Append(diag, [reason |-> "inserting blocks is not supported yet",
                                     instr |-> NoReg])
            /\ ret' = Changed
            /\ pc' = "Done"
       ELSE /\ ret' = Changed
            /\ pc' = "Done"
            /\ UNCHANGED diag
    /\ UNCHANGED <<progVars, FailedISel, InstList, ArtifactList,
                   MI, Res, Changed, NumBlocks, observing,
                   fuel, run, settled, orphan>>
    /\ last' = NoNote
    /\ UNCHANGED modified
    /\ UNCHANGED deadAtCall
    /\ UNCHANGED hist
    /\ UNCHANGED others

\* A post-check that fails the run without a diagnostic; the count of
\* diagnostics is tested against it.
PostCheckSilent ==
    /\ pc = "Artifacts"
    /\ ArtifactList = <<>>
    /\ InstList = <<>>
    /\ IF MFsize # NumBlocks
       THEN /\ UNCHANGED diag
            /\ ret' = FALSE
            /\ pc' = "Failed"
       ELSE /\ ret' = Changed
            /\ pc' = "Done"
            /\ UNCHANGED diag
    /\ UNCHANGED <<progVars, FailedISel, InstList, ArtifactList,
                   MI, Res, Changed, NumBlocks, observing,
                   fuel, run, settled, orphan>>
    /\ last' = NoNote
    /\ UNCHANGED modified
    /\ UNCHANGED deadAtCall
    /\ UNCHANGED hist
    /\ UNCHANGED others

(***************************************************************************)
(* Lines 206-217: the block-count check and the return.                    *)
(***************************************************************************)
PostCheck ==
    /\ pc = "Artifacts"
    /\ ArtifactList = <<>>
    /\ InstList = <<>>
    /\ IF MFsize # NumBlocks
       THEN /\ diag' = Append(diag, [reason |-> "inserting blocks is not supported yet",
                                     instr |-> NoReg])
            /\ ret' = FALSE
            /\ pc' = "Failed"
       ELSE /\ ret' = Changed
            /\ pc' = "Done"
            /\ UNCHANGED diag
    /\ UNCHANGED <<progVars, FailedISel, InstList, ArtifactList,
                   MI, Res, Changed, NumBlocks, observing,
                   fuel, run, settled, orphan>>
    /\ last' = NoNote
    /\ UNCHANGED modified
    /\ UNCHANGED deadAtCall
    /\ UNCHANGED hist
    /\ UNCHANGED others

(***************************************************************************)
(* The pass is run again on the program a successful run left.             *)
(***************************************************************************)
RunAgain ==
    /\ pc = "Done"
    /\ run = 1
    /\ run' = 2
    /\ pc' = "Entry"
    /\ UNCHANGED <<progVars, FailedISel, InstList, ArtifactList,
                   MI, Res, Changed, NumBlocks, observing,
                   diag, ret, fuel, settled, orphan>>
    /\ modified' = FALSE
    /\ last' = NoNote
    /\ UNCHANGED deadAtCall
    /\ UNCHANGED hist
    /\ UNCHANGED others

Results == {"AlreadyLegal", "Legalized", "UnableToLegalize"}

Next ==
    \/ Entry
    \/ PrimaryExit
    \/ PrimaryAssert
    \/ PrimaryDead
    \/ PrimaryLive
    \/ \E o \in Opcodes, u \in {NoReg} \cup Ids : OracleCreate(o, u)
    \/ \E i \in Ids, o \in Opcodes, u \in {NoReg} \cup Ids : OracleChange(i, o, u)
    \/ OracleErase
    \/ OracleAddBlock
    \/ \E res \in Results : LegalizeReturn(res)
    \/ ArtifactDangling
    \/ ArtifactAssert
    \/ ArtifactDead
    \/ ArtifactLive
    \/ \E dead \in SUBSET Ids : CombineReturnTrue(dead)
    \/ CombineReturnFalse
    \/ LoopBack
    \/ PostCheck

Spec == Init /\ [][Next]_vars

(***************************************************************************)
(* The pass run twice: Spec with a second run on the result of the first.  *)
(***************************************************************************)
NextTwice == Next \/ RunAgain

SpecTwice == Init /\ [][NextTwice]_vars

(***************************************************************************)
(* Spec on functions that may have blocks unreachable from the entry.      *)
(***************************************************************************)
InitBlocks == InitProgramBlocks /\ InitRest /\ fuel = MaxNotify

SpecBlocks == InitBlocks /\ [][Next]_vars

(***************************************************************************)
(* Spec with one more edit in the callees' budget.                         *)
(***************************************************************************)
InitDeep == InitProgram /\ InitRest /\ fuel = MaxNotify + 1

SpecDeep == InitDeep /\ [][Next]_vars

(***************************************************************************)
(* Liveness.  The pass is single-threaded and runs to completion, so it    *)
(* always takes its next step; the driver and the combiner are total:      *)
(* every call returns.  The callees' edit budget is either finite or       *)
(* absent.                                                                 *)
(***************************************************************************)
DriverReturns == \E res \in Results : LegalizeReturn(res)

CombinerReturns ==
    CombineReturnFalse \/ \E dead \in SUBSET Ids : CombineReturnTrue(dead)

\* A step of the pass itself, or a callee returning to it.
SchedulerStep ==
    \/ Entry \/ PrimaryExit \/ PrimaryAssert \/ PrimaryDead \/ PrimaryLive
    \/ ArtifactDangling \/ ArtifactAssert \/ ArtifactDead \/ ArtifactLive
    \/ LoopBack \/ PostCheck

Progress == SchedulerStep \/ DriverReturns \/ CombinerReturns

InitLive == InitProgram /\ InitRest /\ fuel \in {MaxNotify, Unlimited}

SpecLive == InitLive /\ [][Next]_vars /\ WF_vars(Progress)

\* The run is over: returned (Done, Failed, Skipped) or stopped by a failed
\* assertion or a crash.
Ended == pc \in {"Done", "Failed", "Skipped", "Aborted", "Crashed"}

(***************************************************************************)
(* C1 (as stated): every run of the pass terminates, whatever the driver   *)
(* and the combiner do through the observer: the outer loop eventually     *)
(* exits.                                                                  *)
(***************************************************************************)
C1_AlwaysTerminates == <>Ended

(***************************************************************************)
(* C1 (amended): a run in which the driver and the combiner make only a    *)
(* bounded number of edits terminates: the outer loop eventually exits.    *)
(***************************************************************************)
C1_TerminatesOnFiniteEdits == (fuel # Unlimited) => <>Ended

\* C1 witness: a run with a finite edit budget, all of it spent, has returned.
C1_Witness == pc = "Done" /\ fuel = 0 /\ Changed

(***************************************************************************)
(* C2: when the driver returns UnableToLegalize the run stops there: the   *)
(* pass goes to its failure exit and returns false, the observer is        *)
(* detached, and neither the program nor a worklist is touched from then   *)
(* on (nothing more is popped, legalized, combined or erased; nothing is   *)
(* rolled back).                                                           *)
(***************************************************************************)
C2_HardStop ==
    [][Res' = "UnableToLegalize" =>
         /\ pc' = "Failed"
         /\ ret' = FALSE
         /\ ~observing'
         /\ UNCHANGED <<life, opc, use, MFsize, InstList, ArtifactList>>]_vars

\* C2 witness: the driver failed after the run had rewritten the program, with
\* instructions still scheduled.
C2_Witness ==
    /\ pc = "Failed"
    /\ Res = "UnableToLegalize"
    /\ modified
    /\ InstList # <<>>

(***************************************************************************)
(* C3: after a successful run no eligible instruction with zero uses and   *)
(* no side effect remains in the program.                                  *)
(***************************************************************************)
C3_NoDeadInstructionRemains ==
    pc = "Done" =>
        \A i \in Live : isPreISelGenericOpcode(opc[i]) => ~isTriviallyDead(i)

(***************************************************************************)
(* C4: the primary and the artifact worklist are disjoint in every         *)
(* reachable state.                                                        *)
(***************************************************************************)
C4_WorklistsDisjoint == Range(InstList) \cap Range(ArtifactList) = {}

(***************************************************************************)
(* C5: every member of either worklist is an instruction that is still in  *)
(* the program.                                                            *)
(***************************************************************************)
C5_WorklistMembersLive ==
    \A i \in Range(InstList) \cup Range(ArtifactList) : life[i] = "live"

(***************************************************************************)
(* C6: neither worklist ever holds the same instruction twice.             *)
(***************************************************************************)
NoDuplicates(wl) ==
    \A a, b \in 1..Len(wl) : a # b => wl[a] # wl[b]

C6_WorklistUniqueness == NoDuplicates(InstList) /\ NoDuplicates(ArtifactList)

\* C6 witness: the last step inserted an instruction into a worklist it was
\* already a member of (a changed or created notification, or the insert after
\* a failed combine).
C6_Witness ==
    /\ last.kind \in {"created", "changed", "insert"}
    /\ \/ last.kind = "insert" /\ last.inInst
       \/ /\ last.kind # "insert"
          /\ isPreISelGenericOpcode(opc[last.instr])
          /\ IF isArtifact(opc[last.instr]) THEN last.inArt ELSE last.inInst

(***************************************************************************)
(* C7 (as stated): if the driver fails with UnableToLegalize after earlier *)
(* instructions of the run were rewritten or combined, the flag the pass   *)
(* returns is true.                                                        *)
(***************************************************************************)
C7_FailureReturnsChanged ==
    (pc = "Failed" /\ Res = "UnableToLegalize" /\ Changed) => ret = TRUE

(***************************************************************************)
(* C7 (amended): if the driver fails with UnableToLegalize the pass        *)
(* returns false, also when earlier instructions of the run were rewritten *)
(* or combined (Changed is true and is not returned).                      *)
(***************************************************************************)
C7_FailureReturnsFalse ==
    (pc = "Failed" /\ Res = "UnableToLegalize") => ret = FALSE

\* C7 witness: the driver failed after an earlier rewrite or combine.
C7_Witness == pc = "Failed" /\ Res = "UnableToLegalize" /\ Changed

(***************************************************************************)
(* C8: a successful run returns true if and only if it changed the         *)
(* program (rewrote, combined away or erased an instruction).              *)
(***************************************************************************)
C8_ReturnsWhetherChanged == pc = "Done" => (ret = TRUE <=> modified)

(***************************************************************************)
(* C9: a second run on the program a successful first run left (same       *)
(* driver and combiner) rewrites, combines and erases nothing and returns  *)
(* false.                                                                  *)
(***************************************************************************)
C9_SecondRunIdle ==
    run = 2 =>
        /\ ~modified
        /\ pc \notin {"Legalize", "Combine"}
        /\ pc = "Done" => ret = FALSE

(***************************************************************************)
(* C10: a producer whose single consumer was rewritten by the driver so    *)
(* that it no longer reads the producer is popped later in the run, found  *)
(* dead and erased: it is not left dead in the program when the run ends.  *)
(***************************************************************************)
C10_OrphanedProducerErased ==
    pc = "Done" =>
        \/ orphan = NoReg
        \/ ~isPreISelGenericOpcode(opc[orphan])
        \/ ~isTriviallyDead(orphan)

(***************************************************************************)
(* Spec with the example program among the initial programs.               *)
(***************************************************************************)
InitExample == (InitProgram \/ ExampleProgram) /\ InitRest /\ fuel = MaxNotify

SpecExample == InitExample /\ [][Next]_vars

(***************************************************************************)
(* C11: no diagnostic is emitted while the observer is attached: on every  *)
(* failure path the observer is detached before the diagnostic.            *)
(***************************************************************************)
C11_DetachedBeforeDiagnostic == diag # <<>> => ~observing

(***************************************************************************)
(* C12: when the fixpoint is reached, the pass fails (one report, returns  *)
(* false, also when Changed is true) if the number of blocks differs from  *)
(* NumBlocks, and otherwise succeeds and returns Changed; in both cases    *)
(* the program stays as the run left it.                                   *)
(***************************************************************************)
C12_BlockCountCheck ==
    [][(pc = "Artifacts" /\ pc' \in {"Done", "Failed"}) =>
         /\ UNCHANGED progVars
         /\ IF MFsize # NumBlocks
            THEN pc' = "Failed" /\ ret' = FALSE /\ Len(diag') = Len(diag) + 1
            ELSE pc' = "Done" /\ ret' = Changed /\ diag' = diag]_vars

\* C12 witness: the run failed on the block count after a rewrite.
C12_Witness ==
    /\ pc = "Failed"
    /\ Res # "UnableToLegalize"
    /\ MFsize # NumBlocks
    /\ Changed

(***************************************************************************)
(* C13: a failed run has emitted exactly one diagnostic, any other run     *)
(* none; the diagnostic of an UnableToLegalize failure names the           *)
(* instruction the driver failed on.                                       *)
(***************************************************************************)
C13_OneDiagnosticPerFailure ==
    /\ pc = "Failed" => Len(diag) = 1
    /\ pc # "Failed" => diag = <<>>
    /\ (pc = "Failed" /\ Res = "UnableToLegalize") =>
           /\ diag[1].instr = MI
           /\ diag[1].reason = "unable to legalize instruction"

\* C13 witness: a failed run whose one diagnostic names an instruction, with
\* nothing rewritten before.
C13_Witness ==
    /\ pc = "Failed"
    /\ Len(diag) = 1
    /\ diag[1].instr # NoReg
    /\ ~modified

(***************************************************************************)
(* C14: a created or changed notification for an instruction with an       *)
(* eligible opcode inserts it into the artifact worklist if the opcode it  *)
(* has then is an artifact opcode, and into the primary worklist           *)
(* otherwise, and leaves the other worklist as it was; changed has the     *)
(* effect of created.                                                      *)
(***************************************************************************)
C14_NotificationClassifies ==
    /\ \A i \in Ids, o \in Opcodes \cup ArtifactOpcodes :
          LET c == createdInstr(Q, i, o) IN
              /\ changedInstr(Q, i, o) = c
              /\ isPreISelGenericOpcode(o) =>
                    IF isArtifact(o)
                    THEN i \in Range(c.art) /\ c.inst = InstList
                    ELSE i \in Range(c.inst) /\ c.art = ArtifactList
    /\ (last.kind \in {"created", "changed"}
            /\ isPreISelGenericOpcode(opc[last.instr])) =>
          IF isArtifact(opc[last.instr])
          THEN /\ last.instr \in Range(ArtifactList)
               /\ last.instr \in Range(InstList) <=> last.inInst
          ELSE /\ last.instr \in Range(InstList)
               /\ last.instr \in Range(ArtifactList) <=> last.inArt

\* C14 witness: a changed notification has put an instruction that was in
\* neither worklist into the artifact worklist.
C14_Witness ==
    /\ last.kind = "changed"
    /\ isArtifact(opc[last.instr])
    /\ ~last.inArt /\ ~last.inInst
    /\ last.instr \in Range(ArtifactList)

(***************************************************************************)
(* C15: an erasing notification for X leaves X in neither worklist,        *)
(* whatever its opcode, keeps every other member of both worklists, in     *)
(* the same order, and changes nothing when X is in neither.               *)
(***************************************************************************)
Before(wl, a, b) == \E m, n \in 1..Len(wl) : m < n /\ wl[m] = a /\ wl[n] = b

SameButFor(old, new, x) ==
    /\ Range(new) = Range(old) \ {x}
    /\ Len(new) = Len(old) - Cardinality({k \in 1..Len(old) : old[k] = x})
    /\ \A a, b \in Range(new) : Before(new, a, b) <=> Before(old, a, b)

C15_ErasingRemoves ==
    /\ \A x \in Ids :
          LET e == erasingInstr(Q, x) IN
              /\ SameButFor(InstList, e.inst, x)
              /\ SameButFor(ArtifactList, e.art, x)
              /\ x \notin Range(InstList) \cup Range(ArtifactList) => e = Q
    /\ last.kind = "erasing" =>
          last.instr \notin Range(InstList) \cup Range(ArtifactList)

\* C15 witness: an erasing notification for an instruction that was in a
\* worklist has been delivered.
C15_Witness ==
    /\ last.kind = "erasing"
    /\ last.inInst \/ last.inArt

(***************************************************************************)
(* C16 (as stated): on the example program, when the driver finds %0 legal *)
(* and edits nothing, a successful run erases %1 and %2 and leaves %0 in   *)
(* the program with at least one use.                                      *)
(***************************************************************************)
ExampleRan ==
    /\ input = "example"
    /\ run = 1
    /\ pc = "Done"
    /\ fuel = MaxNotify

C20_PoppedIsGeneric ==
    /\ pc # "Aborted"
    /\ (pc \in {"LegalizeStart", "CombineStart"} /\ life[MI] = "live") =>
           isPreISelGenericOpcode(opc[MI])

(***************************************************************************)
(* C21: an instruction that a failed combine moved to the primary worklist *)
(* never enters the artifact worklist again in that run.                   *)
(***************************************************************************)
C21_ReclassifiedOnce == hist.failed \cap Range(ArtifactList) = {}

(***************************************************************************)
(* C22: an artifact whose combine fails is inserted into the primary       *)
(* worklist; it stays there until it is popped (and handed to the driver   *)
(* or erased as dead) or erased, so no run that returns success leaves it  *)
(* unprocessed; and it is not handed to the combiner again as long as it   *)
(* is not changed.                                                         *)
(***************************************************************************)
C22_FailedCombineGoesToDriver ==
    [][/\ hist'.failed # hist.failed => MI \in Range(InstList')
       /\ hist'.waiting \subseteq Range(InstList')
       /\ pc' = "Done" => hist'.waiting = {}
       /\ pc' = "CombineStart" => MI' \notin hist'.same]_vars

\* The driver is called on an instruction whose combine failed.
C22_DriverGetsFailedArtifact ==
    pc = "LegalizeStart" /\ MI \in hist.failed /\ MI \in hist.same

(***************************************************************************)
(* C23: after a successful combine every instruction of the dead list is   *)
(* erased and is in neither worklist, and none of them is popped or        *)
(* processed afterwards.                                                   *)
(***************************************************************************)
C23_DeadListRemovedAndErased ==
    \A i \in hist.combined :
        /\ life[i] = "gone"
        /\ i \notin Range(InstList) \cup Range(ArtifactList)
        /\ MI # i

\* A combine succeeded with a dead list one of whose members was in a worklist.
C23_DeadListMemberWasQueued ==
    hist.removed # {} /\ pc = "Artifacts"

(***************************************************************************)
(* C24: the pop of an instruction that is dead never calls the driver      *)
(* (primary worklist) or the combiner (artifact worklist): the instruction *)
(* is erased, unless the assertion on its opcode stops the run first.      *)
(***************************************************************************)
C24_DeadCheckAtEveryPop ==
    [][/\ (pc = "Primary" /\ InstList # <<>>
           /\ isTriviallyDead(WLBack(InstList)))
          => /\ pc' # "LegalizeStart"
             /\ pc' = "Aborted" \/ life'[WLBack(InstList)] = "gone"
       /\ (pc = "Artifacts" /\ ArtifactList # <<>>
           /\ life[WLBack(ArtifactList)] = "live"
           /\ isTriviallyDead(WLBack(ArtifactList)))
          => /\ pc' # "CombineStart"
             /\ pc' = "Aborted" \/ life'[WLBack(ArtifactList)] = "gone"]_vars

\* The steps that evaluate while (!InstList.empty()) of line 204: they leave
\* the artifact loop for the primary loop or for the end of the run.
OuterConditionEvaluated ==
    pc = "Artifacts" /\ pc' \in {"Primary", "Done", "Failed"}

\* An instruction was found dead at its pop and erased, and the run went on.
C24_DeadPopErased ==
    /\ hist.dead # {}
    /\ \A i \in hist.dead : life[i] = "gone"
    /\ pc \in {"Primary", "Artifacts"}

(***************************************************************************)
(* C25: whenever the condition of the outer loop is evaluated the artifact *)
(* worklist is empty, and a run that returns without failure leaves both   *)
(* worklists empty.                                                        *)
(***************************************************************************)
C25_ArtifactsEmptyAtOuterCondition ==
    [][/\ OuterConditionEvaluated => ArtifactList = <<>>
       /\ pc' = "Done" => InstList' = <<>> /\ ArtifactList' = <<>>]_vars

\* A run ended without failure after a second iteration of the outer loop.
C25_EndedAfterSecondIteration ==
    pc = "Done" /\ hist.failed # {} /\ InstList = <<>> /\ ArtifactList = <<>>

(***************************************************************************)
(* C26 (as stated): the results AlreadyLegal and Legalized have the same   *)
(* effect on the changed flag: whenever the driver is about to return, the *)
(* flag after the return is the same for the two results.                  *)
(***************************************************************************)
C26_SameEffectOnChanged ==
    InDriver => ChangedAfter("AlreadyLegal") = ChangedAfter("Legalized")

(***************************************************************************)
(* C26 (amended): AlreadyLegal and Legalized both let the loop continue,   *)
(* and only UnableToLegalize ends the run; Legalized sets the changed      *)
(* flag, AlreadyLegal leaves it as it was.                                 *)
(***************************************************************************)
C26_BothContinueOnlyLegalizedSets ==
    [][(InDriver /\ pc' \notin {"LegalizeStart", "Legalize"})
          => \/ /\ pc' = "Primary"
                /\ hist'.step = "Legalized"
                /\ Changed' = TRUE
             \/ /\ pc' = "Primary"
                /\ hist'.step = "AlreadyLegal"
                /\ Changed' = Changed
             \/ /\ pc' = "Failed"
                /\ hist'.step = "UnableToLegalize"]_vars

\* A step returned AlreadyLegal, the loop went on and the flag is still false.
C26_AlreadyLegalLeftFlag ==
    pc = "Primary" /\ hist.step = "AlreadyLegal" /\ ~Changed

\* The number of times i occurs in the worklist wl.
Occurrences(wl, i) == Cardinality({k \in 1..Len(wl) : wl[k] = i})

\* The worklists inst and art hold, once each, exactly the eligible
\* instructions of the set S: the artifacts in art, the others in inst.
HoldExactly(S, inst, art) ==
    \A i \in Ids :
        LET eligible == i \in S /\ life[i] = "live"
                        /\ isPreISelGenericOpcode(opc[i])
        IN /\ Occurrences(art, i) =
                  (IF eligible /\ isArtifact(opc[i]) THEN 1 ELSE 0)
           /\ Occurrences(inst, i) =
                  (IF eligible /\ ~isArtifact(opc[i]) THEN 1 ELSE 0)

\* The step that seeds the worklists.
Seeding == pc = "Entry" /\ pc' = "Primary"

\* The members of wl are in program order, the latest at the back.
InProgramOrder(wl) == \A k, l \in 1..Len(wl) : k < l => wl[k] < wl[l]

\* A step from the worklist wl to the worklist next keeps the order of the
\* members that stay and puts the new members behind them.
NewBehindOld(wl, next) ==
    LET old == SelectSeq(wl, LAMBDA x : x \in Range(next))
    IN Len(old) <= Len(next) /\ SubSeq(next, 1, Len(old)) = old

(***************************************************************************)
(* C27: the changed flag is false when the loop starts and no step of the  *)
(* run resets it; a run that ends without failure returns true exactly     *)
(* when a driver step returned Legalized or a combine succeeded; a failed  *)
(* run returns false.                                                      *)
(***************************************************************************)
C27_ReturnsAccumulatedFlag ==
    [][/\ (pc = "Entry" /\ pc' = "Primary") => ~Changed'
       /\ (pc # "Entry" /\ Changed) => Changed'
       /\ pc' = "Done" => ret' = hist'.progress
       /\ pc' \in {"Failed", "Skipped"} => ~ret']_vars

\* A run returned true after a Legalized step or a successful combine.
C27_ReturnedTrue ==
    pc = "Done" /\ ret /\ hist.progress

(***************************************************************************)
(* C28 (as stated): after seeding, every eligible instruction of every     *)
(* basic block of the function is in exactly one worklist, once (artifacts *)
(* in the artifact worklist, the others in the primary one), and no other  *)
(* instruction is in a worklist.                                           *)
(***************************************************************************)
C28_SeedingCoversEveryBlock ==
    [][Seeding => HoldExactly(Ids, InstList', ArtifactList')]_vars

(***************************************************************************)
(* C28 (amended): after seeding, every eligible instruction of the blocks  *)
(* reachable from the entry block is in exactly one worklist, once, and no *)
(* other instruction is in a worklist: the instructions of unreachable     *)
(* blocks are not seeded.                                                  *)
(***************************************************************************)
C28_SeedingCoversReachableBlocks ==
    [][Seeding => HoldExactly(RPOT, InstList', ArtifactList')]_vars

\* The worklists were seeded for a function with an eligible instruction in
\* an unreachable block and one in a reachable block.
C28_SeededWithUnreachableBlock ==
    /\ pc = "Primary" /\ ~modified /\ hist = NoHist
    /\ \E i \in unreachable : life[i] = "live" /\ isPreISelGenericOpcode(opc[i])
    /\ InstList # <<>> \/ ArtifactList # <<>>

(***************************************************************************)
(* C29: each worklist is drained last in, first out.  Seeding leaves each  *)
(* worklist in program order, the latest instruction at the back; every    *)
(* step keeps the order of the members and puts an inserted instruction    *)
(* behind them; and every pop takes the back.  So of two seeded members    *)
(* the later is popped first, and an instruction a notification inserts is *)
(* popped before the members that were already there.                      *)
(***************************************************************************)
C29_LastInFirstOut ==
    [][/\ Seeding => InProgramOrder(InstList') /\ InProgramOrder(ArtifactList')
       /\ NewBehindOld(InstList, InstList')
       /\ NewBehindOld(ArtifactList, ArtifactList')
       /\ (pc = "Primary" /\ InstList # <<>>)
             => InstList' = WLPopBack(InstList)
       /\ (pc = "Artifacts" /\ ArtifactList # <<>>)
             => ArtifactList' = WLPopBack(ArtifactList)]_vars

\* An instruction that a notification inserted behind other artifacts is
\* popped and handed to the combiner while artifacts are still queued.
C29_LateInsertPoppedFirst ==
    pc = "CombineStart" /\ MI \in hist.late /\ ArtifactList # <<>>

(***************************************************************************)
(* C30: a changing notification leaves both worklists as they are, for     *)
(* every instruction; a created or changed notification for an instruction *)
(* whose opcode is not eligible leaves both worklists as they are.         *)
(***************************************************************************)
C30_IgnoredNotifications ==
    [][/\ \A i \in Ids : changingInstr(Q, i) = Q
       /\ \A i \in Ids, o \in Opcodes :
             ~isPreISelGenericOpcode(o)
                => createdInstr(Q, i, o) = Q /\ changedInstr(Q, i, o) = Q
       /\ (/\ last'.kind \in {"created", "changed"}
           /\ ~isPreISelGenericOpcode(opc'[last'.instr]))
             => InstList' = InstList /\ ArtifactList' = ArtifactList]_vars

\* A queued instruction was changed to an opcode that is not eligible, and the
\* changed notification left it queued.
C30_ChangedToTargetOpcode ==
    /\ last.kind = "changed"
    /\ ~isPreISelGenericOpcode(opc[last.instr])
    /\ last.inInst \/ last.inArt
    /\ last.instr \in Range(InstList) \cup Range(ArtifactList)

(***************************************************************************)
(* C31: when the function is marked FailedISel at the entry of the pass,   *)
(* the pass returns false at once: the entry step seeds no worklist,       *)
(* leaves the program, the observer and the diagnostics as they are, and   *)
(* no step follows it.                                                     *)
(***************************************************************************)
C31_FailedISelReturnsAtOnce ==
    [][/\ (pc = "Entry" /\ FailedISel)
          => /\ pc' = "Skipped"
             /\ ~ret'
             /\ InstList' = <<>> /\ ArtifactList' = <<>>
             /\ UNCHANGED <<progVars, diag, observing, MI, Res>>
             /\ ~modified' /\ hist' = NoHist
       /\ pc # "Skipped"]_vars

\* The pass returned at once on a function that has an instruction the
\* seeding would have put into a worklist.
C31_SkippedWithEligibleInstruction ==
    /\ pc = "Skipped"
    /\ FailedISel
    /\ \E i \in Ids : life[i] = "live" /\ isPreISelGenericOpcode(opc[i])

(***************************************************************************)
(* The time profiler (llvm/Support/TimeProfiler.h, TimeProfiler.cpp): the  *)
(* global TimeTraceProfilerInstance, the profiler's stack of open          *)
(* sections and its records, and TimeTraceScope objects, which are         *)
(* destroyed innermost first.  A section's duration is 0 (at most 500us)   *)
(* or 1 (longer).  The pass is not running.                                *)
(***************************************************************************)
LegalizerIdle ==
    /\ life = [i \in Ids |-> "gone"]
    /\ opc = [i \in Ids |-> "COPY"]
    /\ use = [i \in Ids |-> NoReg]
    /\ MFsize = 1
    /\ FailedISel = FALSE
    /\ InstList = <<>>
    /\ ArtifactList = <<>>
    /\ pc = "Idle"
    /\ MI = NoReg
    /\ Res = "none"
    /\ Changed = FALSE
    /\ NumBlocks = 0
    /\ observing = FALSE
    /\ diag = <<>>
    /\ ret = FALSE
    /\ fuel = 0
    /\ run = 1
    /\ settled = {}
    /\ orphan = NoReg
    /\ modified = FALSE
    /\ last = NoNote
    /\ deadAtCall = {}
    /\ input = "none"
    /\ unreachable = {}
    /\ hist = NoHist

InitProfiler == LegalizerIdle /\ ProfilerIdle /\ DenseMapIdle

Called(c) ==
    [tpHist EXCEPT !.call = c, !.endCalled = FALSE, !.ownSection = FALSE]

\* TimeTraceProfiler::Begin, lines 70-73: Stack.emplace_back(e).
Begin(name, h) ==
    /\ Stack' = Append(Stack, [Name |-> name, sect |-> h.sect + 1])
    /\ tpHist' = [h EXCEPT !.begun = @ + 1, !.sect = @ + 1]
    /\ UNCHANGED <<Entries, TotalPerName, CountPerName, tpState>>

\* A search that starts at the back of the stack itself, and so always finds
\* the name; the count of topmost sections is tested against it.
OpenOnStack ==
    \E k \in 1..Len(Stack) : Stack[k].Name = Stack[Len(Stack)].Name

\* Whether an entry below the back of the stack has the name of the back.
OpenBeneath ==
    \E k \in 1..(Len(Stack) - 1) : Stack[k].Name = Stack[Len(Stack)].Name

\* A profiler whose End closes the oldest open section instead of the newest;
\* the nesting of sections is tested against it.
EndOldest(d, h) ==
    IF Stack = <<>>
    THEN /\ tpState' \in {"Aborted", "Undefined"}
         /\ tpHist' = h
         /\ UNCHANGED <<Stack, Entries, TotalPerName, CountPerName>>
    ELSE LET e == Stack[1] IN
         /\ Entries' = IF d > 0 THEN Append(Entries, e) ELSE Entries
         /\ IF ~OpenBeneath
            THEN /\ TotalPerName' = [TotalPerName EXCEPT ![e.Name] = @ + d]
                 /\ CountPerName' = [CountPerName EXCEPT ![e.Name] = @ + 1]
            ELSE UNCHANGED <<TotalPerName, CountPerName>>
         /\ Stack' = SubSeq(Stack, 2, Len(Stack))
         /\ tpHist' = [h EXCEPT !.ended = @ + 1]
         /\ UNCHANGED tpState

(***************************************************************************)
(* TimeTraceProfiler::End, lines 75-97.  On an empty stack the assertion   *)
(* "Must call Begin first" fails; without assertions Stack.back() of an    *)
(* empty vector is undefined.                                              *)
(***************************************************************************)
End(d, h) ==
    IF Stack = <<>>
    THEN /\ tpState' \in {"Aborted", "Undefined"}
         /\ tpHist' = h
         /\ UNCHANGED <<Stack, Entries, TotalPerName, CountPerName>>
    ELSE LET e == Stack[Len(Stack)] IN
         /\ Entries' = IF d > 0 THEN Append(Entries, e) ELSE Entries
         /\ IF ~OpenBeneath
            THEN /\ TotalPerName' = [TotalPerName EXCEPT ![e.Name] = @ + d]
                 /\ CountPerName' = [CountPerName EXCEPT ![e.Name] = @ + 1]
            ELSE UNCHANGED <<TotalPerName, CountPerName>>
         /\ Stack' = SubSeq(Stack, 1, Len(Stack) - 1)
         /\ tpHist' = [h EXCEPT !.ended = @ + 1]
         /\ UNCHANGED tpState

(***************************************************************************)
(* TimeTraceProfilerInitialize, lines 148-152.  When an instance exists    *)
(* the assertion fails; without assertions the new instance replaces it.   *)
(***************************************************************************)
TimeTraceProfilerInitialize ==
    /\ tpState = "ok"
    /\ tpHist.inits < MaxInits
    /\ \/ /\ TimeTraceProfilerInstance # 0
          /\ tpState' = "Aborted"
          /\ tpHist' = Called("Initialize")
          /\ UNCHANGED <<TimeTraceProfilerInstance, Stack, Entries,
                         TotalPerName, CountPerName>>
       \/ /\ TimeTraceProfilerInstance' = tpHist.inits + 1
          /\ Stack' = <<>>
          /\ Entries' = <<>>
          /\ TotalPerName' = [n \in Names |-> 0]
          /\ CountPerName' = [n \in Names |-> 0]
          /\ tpHist' = [Called("Initialize") EXCEPT
                            !.inits = @ + 1, !.begun = 0, !.ended = 0]
          /\ UNCHANGED tpState
    /\ UNCHANGED <<Scopes, tpOut, legVars, dmVars>>

\* TimeTraceProfilerCleanup, lines 154-157: delete the instance, if any.
TimeTraceProfilerCleanup ==
    /\ tpState = "ok"
    /\ TimeTraceProfilerInstance' = 0
    /\ Stack' = <<>>
    /\ Entries' = <<>>
    /\ TotalPerName' = [n \in Names |-> 0]
    /\ CountPerName' = [n \in Names |-> 0]
    /\ tpHist' = [Called("Cleanup") EXCEPT !.begun = 0, !.ended = 0]
    /\ UNCHANGED <<Scopes, tpState, tpOut, legVars, dmVars>>

(***************************************************************************)
(* TimeTraceProfilerWrite, lines 159-163, and TimeTraceProfiler::Write,    *)
(* lines 99-139: the events and the totals by name (their order in the     *)
(* output is not modelled).  Without an instance the first assertion       *)
(* fails, or a null pointer is dereferenced; with a section open the       *)
(* second assertion fails, or the records are written all the same.        *)
(***************************************************************************)
TimeTraceProfilerWrite ==
    /\ tpState = "ok"
    /\ tpHist' = Called("Write")
    /\ IF TimeTraceProfilerInstance = 0
       THEN tpState' \in {"Aborted", "Undefined"} /\ UNCHANGED tpOut
       ELSE \/ /\ Stack # <<>>
               /\ tpState' = "Aborted"
               /\ UNCHANGED tpOut
            \/ /\ tpOut' = [events |-> Entries, totals |-> TotalPerName,
                            counts |-> CountPerName]
               /\ UNCHANGED tpState
    /\ UNCHANGED <<TimeTraceProfilerInstance, Stack, Entries, TotalPerName,
                   CountPerName, Scopes, legVars, dmVars>>

\* TimeTraceProfilerEnabled, TimeProfiler.h lines 31-33.
TimeTraceProfilerEnabled == TimeTraceProfilerInstance # 0

\* A Begin that does not test the instance pointer; the disabled state is
\* tested against it.
TimeTraceProfilerBeginUnguarded(name) ==
    /\ tpState = "ok"
    /\ tpHist.sect < MaxSections
    /\ Begin(name, Called("Begin"))
    /\ UNCHANGED <<TimeTraceProfilerInstance, Scopes, tpOut, legVars, dmVars>>

\* TimeTraceProfilerBegin, lines 165-168.
TimeTraceProfilerBegin(name) ==
    /\ tpState = "ok"
    /\ tpHist.sect < MaxSections
    /\ IF TimeTraceProfilerInstance # 0
       THEN Begin(name, Called("Begin"))
       ELSE /\ tpHist' = Called("Begin")
            /\ UNCHANGED <<Stack, Entries, TotalPerName, CountPerName, tpState>>
    /\ UNCHANGED <<TimeTraceProfilerInstance, Scopes, tpOut, legVars, dmVars>>

\* TimeTraceProfilerEnd, lines 170-173.
TimeTraceProfilerEnd(d) ==
    /\ tpState = "ok"
    /\ IF TimeTraceProfilerInstance # 0
       THEN End(d, [Called("End") EXCEPT !.endCalled = TRUE])
       ELSE /\ tpHist' = Called("End")
            /\ UNCHANGED <<Stack, Entries, TotalPerName, CountPerName, tpState>>
    /\ UNCHANGED <<TimeTraceProfilerInstance, Scopes, tpOut, legVars, dmVars>>

(***************************************************************************)
(* TimeTraceScope::TimeTraceScope, TimeProfiler.h lines 53-56.  The scope  *)
(* object has no member; began, inst and sect record what its constructor  *)
(* did.                                                                    *)
(***************************************************************************)
TimeTraceScopeCtor(name) ==
    /\ tpState = "ok"
    /\ Len(Scopes) < MaxScopes
    /\ tpHist.sect < MaxSections
    /\ IF TimeTraceProfilerInstance # 0
       THEN /\ Begin(name, Called("TimeTraceScope"))
            /\ Scopes' = Append(Scopes, [began |-> TRUE,
                                         inst |-> TimeTraceProfilerInstance,
                                         sect |-> tpHist.sect + 1])
       ELSE /\ tpHist' = Called("TimeTraceScope")
            /\ Scopes' = Append(Scopes, [began |-> FALSE, inst |-> 0, sect |-> 0])
            /\ UNCHANGED <<Stack, Entries, TotalPerName, CountPerName, tpState>>
    /\ UNCHANGED <<TimeTraceProfilerInstance, tpOut, legVars, dmVars>>

\* Whether the section End would close is the one the scope s began.
ClosesOwn(s) ==
    /\ s.began
    /\ s.inst = TimeTraceProfilerInstance
    /\ Stack # <<>>
    /\ Stack[Len(Stack)].sect = s.sect

\* TimeTraceScope::~TimeTraceScope, TimeProfiler.h lines 57-60.
TimeTraceScopeDtor(d) ==
    /\ tpState = "ok"
    /\ Scopes # <<>>
    /\ Scopes' = SubSeq(Scopes, 1, Len(Scopes) - 1)
    /\ IF TimeTraceProfilerInstance # 0
       THEN End(d, [Called("~TimeTraceScope") EXCEPT
                        !.endCalled = TRUE,
                        !.ownSection = ClosesOwn(Scopes[Len(Scopes)])])
       ELSE /\ tpHist' = Called("~TimeTraceScope")
            /\ UNCHANGED <<Stack, Entries, TotalPerName, CountPerName, tpState>>
    /\ UNCHANGED <<TimeTraceProfilerInstance, tpOut, legVars, dmVars>>

NextProfiler ==
    \/ TimeTraceProfilerInitialize
    \/ TimeTraceProfilerCleanup
    \/ TimeTraceProfilerWrite
    \/ \E name \in Names : TimeTraceProfilerBegin(name)
    \/ \E d \in {0, 1} : TimeTraceProfilerEnd(d)
    \/ \E name \in Names : TimeTraceScopeCtor(name)
    \/ \E d \in {0, 1} : TimeTraceScopeDtor(d)

SpecProfiler == InitProfiler /\ [][NextProfiler]_vars

(***************************************************************************)
(* C18: with a profiler instance, sections nest: the open sections are on  *)
(* the stack in the order they were begun, End closes the one begun last,  *)
(* the number of open sections is the number of Begins minus the number of *)
(* Ends on the instance, and an End with no open section violates the      *)
(* assertion "Must call Begin first".                                      *)
(***************************************************************************)
OpenSectionsCounted ==
    (TimeTraceProfilerInstance # 0 /\ tpState = "ok") =>
        /\ Len(Stack) = tpHist.begun - tpHist.ended
        /\ \A k \in 1..(Len(Stack) - 1) : Stack[k].sect < Stack[k + 1].sect

EndClosesLast ==
    tpHist'.endCalled =>
        IF Stack = <<>>
        THEN tpState' # "ok"
        ELSE Stack' = SubSeq(Stack, 1, Len(Stack) - 1) /\ tpState' = "ok"

C18_SectionsNest == []OpenSectionsCounted /\ [][EndClosesLast]_vars

\* C18 witness: End has closed the inner of two nested sections.
C18_Witness ==
    /\ tpHist.call = "End"
    /\ tpHist.endCalled
    /\ tpHist.begun = 2 /\ tpHist.ended = 1
    /\ Len(Stack) = 1

(***************************************************************************)
(* C19: when the destructor of a TimeTraceScope calls End, the scope's     *)
(* constructor called Begin on the same profiler instance and End closes   *)
(* the section that call began; it never meets an empty stack.             *)
(***************************************************************************)
C19_ScopeEndsOwnSection ==
    (tpHist.call = "~TimeTraceScope" /\ tpHist.endCalled) =>
        tpHist.ownSection /\ tpState = "ok"

(***************************************************************************)
(* C36: the profiler is enabled exactly from a TimeTraceProfilerInitialize *)
(* to the next TimeTraceProfilerCleanup: Initialize enables it, Cleanup    *)
(* disables it, no other call changes that.  While it is disabled Begin    *)
(* and End change nothing.  An assertion fails in Initialize exactly when  *)
(* the profiler is enabled, and in Write exactly when it is disabled or a  *)
(* section is open.                                                        *)
(***************************************************************************)
AssertionMayFail(call) ==
    ENABLED (/\ call
             /\ tpState' = "Aborted")

AssertionsOfLifecycle ==
    tpState = "ok" =>
        /\ tpHist.inits < MaxInits
              => (AssertionMayFail(TimeTraceProfilerInitialize)
                    <=> TimeTraceProfilerEnabled)
        /\ AssertionMayFail(TimeTraceProfilerWrite)
              <=> (~TimeTraceProfilerEnabled \/ Stack # <<>>)

LifecycleStep ==
    /\ (tpHist'.call = "Initialize" /\ tpState' = "ok")
          => TimeTraceProfilerEnabled'
    /\ tpHist'.call = "Cleanup" => ~TimeTraceProfilerEnabled'
    /\ tpHist'.call \notin {"Initialize", "Cleanup"}
          => UNCHANGED TimeTraceProfilerInstance
    /\ (~TimeTraceProfilerEnabled /\ tpHist'.call \in {"Begin", "End"})
          => UNCHANGED <<TimeTraceProfilerInstance, Stack, Entries,
                         TotalPerName, CountPerName, Scopes, tpState, tpOut>>

C36_TwoStateLifecycle == [][AssertionsOfLifecycle /\ LifecycleStep]_vars

\* Begin was called after a Cleanup, on the disabled profiler, and no section
\* is open.
C36_BeginWhileDisabled ==
    /\ tpHist.call = "Begin"
    /\ tpHist.inits > 0
    /\ ~TimeTraceProfilerEnabled
    /\ Stack = <<>>
    /\ tpState = "ok"

\* The names of the sections open beneath the newest one.
NamesBeneath == {Stack[k].Name : k \in 1..(Len(Stack) - 1)}

(***************************************************************************)
(* C35: the totals by name count topmost sections only.  When End closes   *)
(* a section named N, the count of N grows by one and its total by the     *)
(* section's duration if no section named N is open beneath it, and both   *)
(* stay as they are otherwise; the counts and totals of the other names    *)
(* stay as they are.                                                       *)
(***************************************************************************)
C35_TopmostSectionsCounted ==
    [][(tpHist'.endCalled /\ Stack # <<>>) =>
          LET N == Stack[Len(Stack)].Name IN
          /\ \A n \in Names \ {N} :
                /\ CountPerName'[n] = CountPerName[n]
                /\ TotalPerName'[n] = TotalPerName[n]
          /\ IF N \in NamesBeneath
             THEN /\ CountPerName'[N] = CountPerName[N]
                  /\ TotalPerName'[N] = TotalPerName[N]
             ELSE /\ CountPerName'[N] = CountPerName[N] + 1
                  /\ TotalPerName'[N] >= TotalPerName[N]]_vars

\* Two nested sections of one name have ended, and the name was counted once.
C35_NestedChainCountedOnce ==
    /\ tpState = "ok"
    /\ TimeTraceProfilerInstance # 0
    /\ Stack = <<>>
    /\ tpHist.begun = 2 /\ tpHist.ended = 2
    /\ \E N \in Names : /\ CountPerName[N] = 1
                         /\ \A n \in Names \ {N} : CountPerName[n] = 0

(***************************************************************************)
(* DenseMap<KeyT*, ValueT>, llvm/ADT/DenseMap.h.                           *)
(***************************************************************************)
\* The fields are unsigned: a difference below zero wraps to the top of the
\* range, which stands above every bucket count.  No sum or product of the
\* model comes near the top of the range.
UnsignedMax == 2147483647

Minus(a, b) == IF a >= b THEN a - b ELSE UnsignedMax - ((b - a) - 1)

\* The pointers used as keys: objects aligned on 16 bytes.
Keys == {16 * i : i \in 1..MaxKeys}

Values == {0, 1}

\* ValueT(), line 169.
DefaultValue == 0

InitBucketCounts == {2 ^ i : i \in 0..MaxLog2Buckets}

\* Bitwise operations on unsigned values.
RECURSIVE BitXor(_, _)
BitXor(a, b) ==
    IF a = 0 THEN b
    ELSE IF b = 0 THEN a
    ELSE (((a % 2) + (b % 2)) % 2) + 2 * BitXor(a \div 2, b \div 2)

RECURSIVE BitAnd(_, _)
BitAnd(a, b) ==
    IF a = 0 \/ b = 0 THEN 0
    ELSE ((a % 2) * (b % 2)) + 2 * BitAnd(a \div 2, b \div 2)

\* DenseMapKeyInfo<T*>::getHashValue, lines 37-40.
getHashValue(PtrVal) ==
    BitXor(PtrVal \div 16, PtrVal \div 512)

\* A bucket whose key is the empty key: its value is not constructed.
EmptyBucket == [first |-> getEmptyKey, second |-> NoValue]

\* A bucket whose value erase has destroyed.
TombstoneBucket == [first |-> getTombstoneKey, second |-> NoValue]

\* BucketT *FoundTombstone = 0, line 220.
NoBucket == 0 - 1

(***************************************************************************)
(* LookupBucketFor, lines 214-253, on the table B of N buckets.  The probe *)
(* visits bucket (hash + 1 + 2 + ... ) & (N - 1); it returns when it meets *)
(* Val or the empty key.  The sequence of buckets has period 2N: when 2N   *)
(* probes have met neither, the loop never ends.                           *)
(***************************************************************************)
\* A lookup that stops at the first tombstone it meets and returns it as the
\* bucket for Val; the search past the tombstones is tested against it.
RECURSIVE ProbeEager(_, _, _, _, _)
ProbeEager(B, N, Val, BucketNo, ProbeAmt) ==
    LET ThisBucket == BitAnd(BucketNo, N - 1) IN
    IF B[ThisBucket].first = Val
    THEN [found |-> TRUE, bucket |-> ThisBucket, loops |-> FALSE]
    ELSE IF B[ThisBucket].first \in {getEmptyKey, getTombstoneKey}
    THEN [found |-> FALSE, bucket |-> ThisBucket, loops |-> FALSE]
    ELSE IF ProbeAmt > 2 * N
    THEN [found |-> FALSE, bucket |-> NoBucket, loops |-> TRUE]
    ELSE ProbeEager(B, N, Val, BucketNo + ProbeAmt, ProbeAmt + 1)

LookupBucketForEager(B, N, Val) == ProbeEager(B, N, Val, getHashValue(Val), 1)

RECURSIVE Probe(_, _, _, _, _, _)
Probe(B, N, Val, BucketNo, ProbeAmt, FoundTombstone) ==
    LET ThisBucket == BitAnd(BucketNo, N - 1) IN
    IF B[ThisBucket].first = Val
    THEN [found |-> TRUE, bucket |-> ThisBucket, loops |-> FALSE]
    ELSE IF B[ThisBucket].first = getEmptyKey
    THEN [found |-> FALSE,
          bucket |-> IF FoundTombstone # NoBucket THEN FoundTombstone
                     ELSE ThisBucket,
          loops |-> FALSE]
    ELSE IF ProbeAmt > 2 * N
    THEN [found |-> FALSE, bucket |-> NoBucket, loops |-> TRUE]
    ELSE Probe(B, N, Val, BucketNo + ProbeAmt, ProbeAmt + 1,
               IF B[ThisBucket].first = getTombstoneKey
                  /\ FoundTombstone = NoBucket
               THEN ThisBucket ELSE FoundTombstone)

LookupBucketFor(B, N, Val) == Probe(B, N, Val, getHashValue(Val), 1, NoBucket)

\* init, lines 255-266: every key is the empty key.
init(InitBuckets) == [b \in 0..(InitBuckets - 1) |-> EmptyBucket]

(***************************************************************************)
(* grow, lines 268-302: a table of twice the size, into which the live     *)
(* buckets of the old one are inserted in bucket order.  state is "Aborted"*)
(* when a key is found in the new table before it is inserted (line 288).  *)
(***************************************************************************)
RECURSIVE Reinsert(_, _, _, _, _)
Reinsert(OldBuckets, OldNumBuckets, b, New, N) ==
    IF b = OldNumBuckets THEN [Buckets |-> New, state |-> "ok"]
    ELSE IF OldBuckets[b].first # getEmptyKey
            /\ OldBuckets[b].first # getTombstoneKey
    THEN LET Dest == LookupBucketFor(New, N, OldBuckets[b].first) IN
         IF Dest.loops THEN [Buckets |-> New, state |-> "Looping"]
         ELSE IF Dest.found THEN [Buckets |-> New, state |-> "Aborted"]
         ELSE Reinsert(OldBuckets, OldNumBuckets, b + 1,
                       [New EXCEPT ![Dest.bucket] = OldBuckets[b]], N)
    ELSE Reinsert(OldBuckets, OldNumBuckets, b + 1, New, N)

grow(OldBuckets, OldNumBuckets) ==
    Reinsert(OldBuckets, OldNumBuckets, 0,
             init(OldNumBuckets * 2), OldNumBuckets * 2)

(***************************************************************************)
(* InsertIntoBucket, lines 173-198: the fields of the map after Key and    *)
(* Value are stored in TheBucket, or in the bucket found for Key after the *)
(* table has grown.                                                        *)
(***************************************************************************)
InsertIntoBucket(Key, Value, TheBucket) ==
    LET grows == \/ NumEntries * 4 >= NumBuckets * 3
                 \/ Minus(NumBuckets, NumEntries + NumTombstones)
                        < NumBuckets \div 8
        g == grow(Buckets, NumBuckets)
        B1 == IF grows THEN g.Buckets ELSE Buckets
        N1 == IF grows THEN NumBuckets * 2 ELSE NumBuckets
        T1 == IF grows THEN 0 ELSE NumTombstones
        again == LookupBucketFor(B1, N1, Key)
        state == IF ~grows THEN "ok"
                 ELSE IF g.state # "ok" THEN g.state
                 ELSE IF again.loops THEN "Looping"
                 ELSE "ok"
        b == IF grows THEN again.bucket ELSE TheBucket
    IN  IF state # "ok"
        THEN [NumBuckets |-> N1, Buckets |-> B1, NumEntries |-> NumEntries,
              NumTombstones |-> T1, grew |-> grows, reused |-> FALSE,
              state |-> state]
        ELSE [NumBuckets |-> N1,
              Buckets |-> [B1 EXCEPT ![b] = [first |-> Key, second |-> Value]],
              NumEntries |-> NumEntries + 1,
              NumTombstones |-> IF B1[b].first # getEmptyKey
                                THEN Minus(T1, 1) ELSE T1,
              grew |-> grows,
              reused |-> B1[b].first # getEmptyKey,
              state |-> "ok"]

\* The finite map the callers expect: the keys added and not since erased.
NoKeys == [k \in Keys |-> NoValue]

Present(k) == dmRef[k] # NoValue

\* What a call returned (ret, val) and what the finite map gives for it.
Returned(op, key, result, value, wantResult, wantValue, grew, reused) ==
    [op |-> op, key |-> key, returned |-> TRUE, ret |-> result,
     val |-> value, wantRet |-> wantResult, wantVal |-> wantValue,
     grew |-> grew, reused |-> reused]

\* The probe of LookupBucketFor never ends: the call does not return.
NeverReturns(op, key) ==
    /\ dmState' = "Looping"
    /\ dmLast' = [op |-> op, key |-> key, returned |-> FALSE, ret |-> FALSE,
                  val |-> NoValue, wantRet |-> FALSE, wantVal |-> NoValue,
                  grew |-> FALSE, reused |-> FALSE]
    /\ UNCHANGED <<NumBuckets, Buckets, NumEntries, NumTombstones, dmRef>>

\* The map takes the fields InsertIntoBucket computed.
Store(m) ==
    /\ NumBuckets' = m.NumBuckets
    /\ Buckets' = m.Buckets
    /\ NumEntries' = m.NumEntries
    /\ NumTombstones' = m.NumTombstones
    /\ dmState' = m.state

\* explicit DenseMap(unsigned NumInitBuckets = 64), lines 62-64.
DenseMapConstructed(NumInitBuckets) ==
    /\ NumBuckets = NumInitBuckets
    /\ Buckets = init(NumInitBuckets)
    /\ NumEntries = 0
    /\ NumTombstones = 0
    /\ dmState = "ok"
    /\ dmRef = NoKeys
    /\ dmLast = Returned("DenseMap", 0, FALSE, NoValue, FALSE, NoValue,
                         FALSE, FALSE)

\* size, line 91.
size == NumEntries

\* count, lines 116-119.
count(Val) ==
    /\ dmState = "ok"
    /\ LET r == LookupBucketFor(Buckets, NumBuckets, Val) IN
       IF r.loops THEN NeverReturns("count", Val)
       ELSE /\ dmLast' = Returned("count", Val, r.found, NoValue,
                                  Present(Val), NoValue, FALSE, FALSE)
            /\ UNCHANGED <<NumBuckets, Buckets, NumEntries, NumTombstones,
                           dmState, dmRef>>
    /\ UNCHANGED <<legVars, tpVars>>

\* find, lines 121-126: the iterator yields the bucket's value, or is end().
find(Val) ==
    /\ dmState = "ok"
    /\ LET r == LookupBucketFor(Buckets, NumBuckets, Val) IN
       IF r.loops THEN NeverReturns("find", Val)
       ELSE /\ dmLast' = Returned("find", Val, r.found,
                                  IF r.found THEN Buckets[r.bucket].second
                                  ELSE NoValue,
                                  Present(Val), dmRef[Val], FALSE, FALSE)
            /\ UNCHANGED <<NumBuckets, Buckets, NumEntries, NumTombstones,
                           dmState, dmRef>>
    /\ UNCHANGED <<legVars, tpVars>>

\* insert, lines 134-142.
insert(Key, Value) ==
    /\ dmState = "ok"
    /\ LET r == LookupBucketFor(Buckets, NumBuckets, Key)
           m == InsertIntoBucket(Key, Value, r.bucket)
       IN  IF r.loops THEN NeverReturns("insert", Key)
           ELSE IF r.found
           THEN /\ dmLast' = Returned("insert", Key, FALSE, NoValue,
                                      ~Present(Key), NoValue, FALSE, FALSE)
                /\ dmRef' = IF Present(Key) THEN dmRef
                            ELSE [dmRef EXCEPT ![Key] = Value]
                /\ UNCHANGED <<NumBuckets, Buckets, NumEntries,
                               NumTombstones, dmState>>
           ELSE /\ Store(m)
                /\ dmLast' = [Returned("insert", Key, TRUE, NoValue,
                                       ~Present(Key), NoValue, m.grew,
                                       m.reused)
                                EXCEPT !.returned = (m.state = "ok")]
                /\ dmRef' = IF Present(Key) \/ m.state # "ok" THEN dmRef
                            ELSE [dmRef EXCEPT ![Key] = Value]
    /\ UNCHANGED <<legVars, tpVars>>

\* An erase that leaves a tombstone without counting it; the counters are
\* tested against it.
eraseUncounted(Val) ==
    /\ dmState = "ok"
    /\ LET r == LookupBucketFor(Buckets, NumBuckets, Val) IN
       IF r.loops THEN NeverReturns("erase", Val)
       ELSE /\ dmLast' = Returned("erase", Val, r.found, NoValue,
                                  Present(Val), NoValue, FALSE, FALSE)
            /\ dmRef' = [dmRef EXCEPT ![Val] = NoValue]
            /\ IF r.found
               THEN /\ Buckets' = [Buckets EXCEPT ![r.bucket] = TombstoneBucket]
                    /\ NumEntries' = Minus(NumEntries, 1)
                    /\ UNCHANGED NumTombstones
               ELSE UNCHANGED <<Buckets, NumEntries, NumTombstones>>
            /\ UNCHANGED <<NumBuckets, dmState>>
    /\ UNCHANGED <<legVars, tpVars>>

\* erase(const KeyT &), lines 144-154.
erase(Val) ==
    /\ dmState = "ok"
    /\ LET r == LookupBucketFor(Buckets, NumBuckets, Val) IN
       IF r.loops THEN NeverReturns("erase", Val)
       ELSE /\ dmLast' = Returned("erase", Val, r.found, NoValue,
                                  Present(Val), NoValue, FALSE, FALSE)
            /\ dmRef' = [dmRef EXCEPT ![Val] = NoValue]
            /\ IF r.found
               THEN /\ Buckets' = [Buckets EXCEPT ![r.bucket] = TombstoneBucket]
                    /\ NumEntries' = Minus(NumEntries, 1)
                    /\ NumTombstones' = NumTombstones + 1
               ELSE UNCHANGED <<Buckets, NumEntries, NumTombstones>>
            /\ UNCHANGED <<NumBuckets, dmState>>
    /\ UNCHANGED <<legVars, tpVars>>

\* erase(iterator), lines 155-162, with the iterator find(Val) returned.
eraseIterator(Val) ==
    /\ dmState = "ok"
    /\ LET r == LookupBucketFor(Buckets, NumBuckets, Val) IN
       /\ ~r.loops
       /\ r.found
       /\ dmLast' = Returned("erase(iterator)", Val, TRUE, NoValue,
                             Present(Val), NoValue, FALSE, FALSE)
       /\ dmRef' = [dmRef EXCEPT ![Val] = NoValue]
       /\ Buckets' = [Buckets EXCEPT ![r.bucket] = TombstoneBucket]
       /\ NumEntries' = Minus(NumEntries, 1)
       /\ NumTombstones' = NumTombstones + 1
       /\ UNCHANGED <<NumBuckets, dmState>>
    /\ UNCHANGED <<legVars, tpVars>>

(***************************************************************************)
(* operator[], lines 164-170: a reference to the value of Key, which is    *)
(* ValueT() when Key was absent.  The caller reads the reference and, when *)
(* Written is a value, assigns it through the reference.                   *)
(***************************************************************************)
operatorIndex(Key, Written) ==
    /\ dmState = "ok"
    /\ LET r == LookupBucketFor(Buckets, NumBuckets, Key)
           m == InsertIntoBucket(Key, DefaultValue, r.bucket)
           read == IF r.found THEN Buckets[r.bucket].second ELSE DefaultValue
           wantRead == IF Present(Key) THEN dmRef[Key] ELSE DefaultValue
           stored == IF Written = NoValue THEN read ELSE Written
           wantStored == IF Written = NoValue THEN wantRead ELSE Written
       IN  IF r.loops THEN NeverReturns("operator[]", Key)
           ELSE IF r.found
           THEN /\ Buckets' = [Buckets EXCEPT ![r.bucket].second = stored]
                /\ dmLast' = Returned("operator[]", Key, TRUE, read,
                                      Present(Key), wantRead, FALSE, FALSE)
                /\ dmRef' = [dmRef EXCEPT ![Key] = wantStored]
                /\ UNCHANGED <<NumBuckets, NumEntries, NumTombstones, dmState>>
           ELSE /\ Store([m EXCEPT !.Buckets =
                              IF m.state # "ok" THEN @
                              ELSE [b \in DOMAIN @ |->
                                      IF @[b].first = Key
                                      THEN [first |-> Key, second |-> stored]
                                      ELSE @[b]]])
                /\ dmLast' = [Returned("operator[]", Key, FALSE, read,
                                       Present(Key), wantRead, m.grew,
                                       m.reused)
                                EXCEPT !.returned = (m.state = "ok")]
                /\ dmRef' = IF m.state # "ok" THEN dmRef
                            ELSE [dmRef EXCEPT ![Key] = wantStored]
    /\ UNCHANGED <<legVars, tpVars>>

\* Log2_32_Ceil (llvm/Support/MathExtras.h): the least n with 2^n >= Value.
RECURSIVE Log2_32_Ceil(_)
Log2_32_Ceil(Value) ==
    IF Value <= 1 THEN 0 ELSE 1 + Log2_32_Ceil((Value + 1) \div 2)

\* shrink_and_clear, lines 304-333: the number of buckets afterwards.
shrink_and_clear ==
    IF NumEntries > 32 THEN 2 ^ (Log2_32_Ceil(NumEntries) + 1)
    ELSE 64

\* clear, lines 93-113.  When the count of entries does not return to 0 the
\* assertion of line 111 fails; a build without assertions carries on.
clear ==
    /\ dmState = "ok"
    /\ IF NumEntries * 4 < NumBuckets /\ NumBuckets > 64
       THEN /\ NumBuckets' = shrink_and_clear
            /\ Buckets' = init(shrink_and_clear)
            /\ NumEntries' = 0
            /\ UNCHANGED dmState
       ELSE LET live == {b \in DOMAIN Buckets :
                            /\ Buckets[b].first # getEmptyKey
                            /\ Buckets[b].first # getTombstoneKey}
                left == Minus(NumEntries, Cardinality(live))
            IN  /\ NumBuckets' = NumBuckets
                /\ Buckets' = init(NumBuckets)
                /\ NumEntries' = left
                /\ dmState' \in IF left = 0 THEN {"ok"} ELSE {"Aborted", "ok"}
    /\ NumTombstones' = 0
    /\ dmRef' = NoKeys
    /\ dmLast' = Returned("clear", 0, FALSE, NoValue, FALSE, NoValue,
                          FALSE, FALSE)
    /\ UNCHANGED <<legVars, tpVars>>

InitDenseMap ==
    /\ LegalizerIdle
    /\ ProfilerIdle
    /\ \E n \in InitBucketCounts : DenseMapConstructed(n)

NextDenseMap ==
    \/ \E k \in Keys : count(k)
    \/ \E k \in Keys : find(k)
    \/ \E k \in Keys, v \in Values : insert(k, v)
    \/ \E k \in Keys : erase(k)
    \/ \E k \in Keys : eraseIterator(k)
    \/ \E k \in Keys, w \in Values \cup {NoValue} : operatorIndex(k, w)
    \/ clear

SpecDenseMap == InitDenseMap /\ [][NextDenseMap]_vars

(***************************************************************************)
(* SpecDenseMap with, in addition, a map constructed with twice the        *)
(* default number of buckets, the least table that clear shrinks.          *)
(***************************************************************************)
\* explicit DenseMap(unsigned NumInitBuckets = 64), line 62.
DefaultBuckets == 64

LargeBuckets == 2 * DefaultBuckets

InitDenseMapLarge ==
    /\ LegalizerIdle
    /\ ProfilerIdle
    /\ \E n \in InitBucketCounts \cup {LargeBuckets} : DenseMapConstructed(n)

SpecDenseMapLarge == InitDenseMapLarge /\ [][NextDenseMap]_vars

(***************************************************************************)
(* C17: the DenseMap behaves as the finite map of the keys added and not   *)
(* since erased: every insert, erase, count, find and operator[] returns,  *)
(* with the result and the value that map gives, and size() is the number  *)
(* of its keys.                                                            *)
(***************************************************************************)
AgreesWithFiniteMap ==
    /\ dmLast.ret = dmLast.wantRet
    /\ dmLast.val = dmLast.wantVal
    /\ size = Cardinality({k \in Keys : Present(k)})
    /\ \A k \in Keys :
         LET r == LookupBucketFor(Buckets, NumBuckets, k) IN
         r.loops \/ /\ r.found = Present(k)
                    /\ r.found => Buckets[r.bucket].second = dmRef[k]

C17_BehavesAsFiniteMap ==
    dmState # "none" => dmLast.returned /\ dmState = "ok" /\ AgreesWithFiniteMap

\* Whenever the call returns, its result is that of the finite map.
ReturnedAgrees ==
    (dmState # "none" /\ dmLast.returned) => AgreesWithFiniteMap

\* The buckets of the table that hold the empty key, the tombstone key, a key.
EmptyBuckets == {b \in DOMAIN Buckets : Buckets[b].first = getEmptyKey}

TombstoneBuckets == {b \in DOMAIN Buckets : Buckets[b].first = getTombstoneKey}

LiveBuckets == DOMAIN Buckets \ (EmptyBuckets \cup TombstoneBuckets)

(***************************************************************************)
(* C32: whatever the bucket count the map was constructed with, a bucket   *)
(* of the table holds the empty key after every call, so LookupBucketFor   *)
(* ends for every key and every call returns.                              *)
(***************************************************************************)
C32_AnEmptyBucketRemains ==
    dmState # "none" =>
        /\ EmptyBuckets # {}
        /\ dmState # "Looping"
        /\ \A k \in Keys : ~LookupBucketFor(Buckets, NumBuckets, k).loops

(***************************************************************************)
(* C33: between calls, NumEntries is the number of buckets that hold a     *)
(* key and NumTombstones the number of buckets that hold the tombstone     *)
(* key, whatever insert, operator[], erase, clear, grow and                *)
(* shrink_and_clear did; no assertion of the map fails.                    *)
(***************************************************************************)
C33_CountersMatchBuckets ==
    /\ dmState # "Aborted"
    /\ dmState = "ok" =>
          /\ NumEntries = Cardinality(LiveBuckets)
          /\ NumTombstones = Cardinality(TombstoneBuckets)

\* The buckets that hold key k, and the keys the table B holds.
BucketsOf(k) == {b \in DOMAIN Buckets : Buckets[b].first = k}

KeysIn(B) == {B[b].first : b \in DOMAIN B} \ {getEmptyKey, getTombstoneKey}

\* An insert reused a tombstone while another tombstone and other keys remain.
C33_TombstoneReused ==
    /\ dmState = "ok"
    /\ dmLast.reused
    /\ NumTombstones > 0
    /\ NumEntries > 1

(***************************************************************************)
(* C34: no key occupies two buckets.  A key is stored in a tombstone only  *)
(* when the table did not hold it, that is after the probe has gone past   *)
(* the tombstones to an empty bucket without meeting the key; and a table  *)
(* that grew holds each key it held before once, and the inserted key.     *)
(***************************************************************************)
C34_NoKeyInTwoBuckets ==
    [][/\ \A k \in Keys : Cardinality(BucketsOf(k)') <= 1
       /\ dmLast'.reused => dmLast'.key \notin KeysIn(Buckets)
       /\ (dmLast'.grew /\ dmState' = "ok")
             => KeysIn(Buckets') = KeysIn(Buckets) \cup {dmLast'.key}
       /\ dmState' = "ok"
             => \A k \in Keys : Present(k)' <=> BucketsOf(k)' # {}]_vars

\* A key was stored in the tombstone of its first bucket after the probe went
\* on past the key of the next bucket to an empty one.
C34_StoredInFirstTombstone ==
    /\ dmState = "ok"
    /\ dmLast.reused
    /\ NumBuckets >= 4
    /\ LET home == BitAnd(getHashValue(dmLast.key), NumBuckets - 1)
           next == BitAnd(getHashValue(dmLast.key) + 1, NumBuckets - 1)
       IN  /\ Buckets[home].first = dmLast.key
           /\ Buckets[next].first \in Keys

=============================================================================
